---- MODULE Spec2Model ----
(***************************************************************************)
(* VeriWipe: the hash-chained operation log, the certificate builder and   *)
(* its verifiers, the wipe executor and the method selector.               *)
(*                                                                         *)
(* Text is modelled as a sequence of tokens.  A token is a record whose    *)
(* field name gives its kind: [c |-> ..] a run of characters, [u |-> ..]   *)
(* a 36-character uuid, [h |-> ..] a 64-character SHA-256 hex digest and   *)
(* [z |-> 64] the 64 zeros of the genesis hash.  String concatenation is   *)
(* \o, so f"{a}{b}" keeps no trace of where a ends and b starts.           *)
(***************************************************************************)
EXTENDS Integers, Sequences, FiniteSets, TLC

VARIABLES
    now,            \* time.time(): the wall clock, read by every timestamp
    uuids,          \* number of uuid.uuid4() values drawn so far
    log_chain,      \* TamperProofLogger.log_chain
    log_file,       \* log_file_path: whether it exists, and the chain it holds
    tampered,       \* <<i, field>> an outside party rewrote, or Untouched
    str_hash,       \* str.__hash__() % 10 of this process (PYTHONHASHSEED)
    method_selector,\* per engine: the fitted forest, as far as it was queried
    has_selector,   \* per engine: "unbuilt", "forest" or "none"
    selected,       \* the (engine, facts, method) answers given so far
    ops,            \* the WipeOperation objects created so far
    current_operations, \* WipeCore.current_operations: device path -> index in ops
    exec,           \* per thread: where its execute_wipe call stands
    runs,           \* execute_wipe calls the caller has made so far
    signer,         \* the key pair of the CertificateGenerator's signer
    public_key,     \* the public key the web CertificateVerifier loaded
    certs,          \* the certificate files written: content, the field edited
                    \* since, whether the web verifier accepted it before
    verdict,        \* per verifier: what it said of the certificate file
    adding,         \* per thread: where its add_entry call stands
    prior_log,      \* the log file as the logger's constructor found it
    builds,         \* the certificates built by _prepare_certificate_data
    wipe_threads,   \* VeriWipeMainWindow.wipe_threads: device path -> WipeThread
    signals,        \* wipe_completed signals emitted and not yet delivered
    key_files,      \* the PEM files at private_key_path and public_key_path
    signer_history  \* the private keys held by the CryptographicSigner objects
                    \* constructed so far, in order

logVars == <<now, uuids, log_chain, log_file, tampered>>
selVars == <<str_hash, method_selector, has_selector, selected>>
wipeVars == <<ops, current_operations, exec, runs>>
certVars == <<signer, public_key, certs, verdict>>
appVars == <<adding, prior_log, builds, wipe_threads, signals, key_files,
             signer_history>>
vars == <<logVars, selVars, wipeVars, certVars, appVars>>

(***************************************************************************)
(* Bounds                                                                  *)
(***************************************************************************)
MaxLog == 3         \* entries appended to one log chain
MaxTime == 2        \* largest clock reading
MaxSelects == 2     \* select_optimal_wipe_method calls recorded
MaxRuns == 2        \* execute_wipe calls a caller makes for one device
MaxTicks == 1       \* polls of a running sanitize command
MaxBuilds == 2      \* certificates built directly from one generator
MaxSigners == 4     \* CryptographicSigner objects constructed one after another
MaxOps == 2         \* prepare_wipe_operation calls of the callers of one core

(***************************************************************************)
(* Text                                                                    *)
(***************************************************************************)
Chr(s) == [c |-> s]

DigitChar == <<"0", "1", "2", "3", "4", "5", "6", "7", "8", "9">>

RECURSIVE Digits(_)
Digits(n) ==
    IF n < 10 THEN <<Chr(DigitChar[n + 1])>>
    ELSE Digits(n \div 10) \o <<Chr(DigitChar[(n % 10) + 1])>>

\* str() of a float holding a whole number of seconds: "3.0"
FloatStr(t) == Digits(t) \o <<Chr("."), Chr("0")>>

\* hashlib.sha256(data.encode()).hexdigest(): collision-free, fixed width
Sha256(data) == [h |-> data]

genesis_hash == [z |-> 64]

\* str(uuid.uuid4()): the n-th value drawn
Uuid4(n) == [u |-> n]

Messages == {<<Chr("a")>>, <<Chr("a"), Chr("I")>>}
Levels == {<<Chr("I")>>, <<Chr("E")>>}
Times == 1..MaxTime

(***************************************************************************)
(* LogEntry                                                                *)
(***************************************************************************)
calculate_hash_no_level(e) ==
    Sha256(FloatStr(e.timestamp) \o <<e.entry_id>> \o e.message
           \o <<e.previous_hash>>)

calculate_hash(e) ==
    Sha256(FloatStr(e.timestamp) \o <<e.entry_id>> \o e.message \o e.level
           \o <<e.previous_hash>>)

\* LogEntry(...) with entry_hash left empty: __post_init__ fills it in
LogEntry(ts, id, msg, lvl, prev) ==
    LET e == [timestamp |-> ts, entry_id |-> id, message |-> msg,
              level |-> lvl, previous_hash |-> prev]
    IN  [timestamp |-> ts, entry_id |-> id, message |-> msg, level |-> lvl,
         previous_hash |-> prev, entry_hash |-> calculate_hash(e)]

(***************************************************************************)
(* TamperProofLogger                                                       *)
(***************************************************************************)
\* the loop of verify_chain_integrity from entry i on
RECURSIVE VerifyFrom(_, _, _)
VerifyFrom(chain, i, expected_previous) ==
    IF i > Len(chain) THEN TRUE
    ELSE IF chain[i].previous_hash # expected_previous THEN FALSE
    ELSE IF chain[i].entry_hash # calculate_hash(chain[i]) THEN FALSE
    ELSE VerifyFrom(chain, i + 1, chain[i].entry_hash)

verify_chain_integrity(chain) ==
    IF chain = <<>> THEN TRUE ELSE VerifyFrom(chain, 1, genesis_hash)

PreviousHashGenesis(chain) == genesis_hash

PreviousHash(chain) ==
    IF chain # <<>> THEN chain[Len(chain)].entry_hash ELSE genesis_hash

\* the chain after add_entry(message, level) at clock reading ts
Appended(chain, ts, n, message, level) ==
    Append(chain, LogEntry(ts, Uuid4(n), message, level, PreviousHash(chain)))

\* _save_log: the whole chain replaces the file; a failure to open the file
\* is printed and swallowed
SaveLog(chain, ok) ==
    IF ok THEN [exists |-> TRUE, entries |-> chain] ELSE log_file

add_entry(message, level) ==
    /\ \E ts \in Times, ok \in BOOLEAN :
        /\ ts >= now
        /\ now' = ts
        /\ uuids' = uuids + 1
        /\ log_chain' = Appended(log_chain, ts, uuids + 1, message, level)
        /\ log_file' = SaveLog(log_chain', ok)
    /\ UNCHANGED <<tampered, selVars, wipeVars, appVars>>

\* add_entry(message) in the middle of a longer handler: the logger as
\* [chain, file] before and after
EntryAdded(logger, ts, n, message, level, ok) ==
    LET chain == Appended(logger.chain, ts, n, message, level)
    IN  [chain |-> chain,
         file |-> IF ok THEN [exists |-> TRUE, entries |-> chain]
                  ELSE logger.file]

\* the keyword arguments LogEntry(**entry_data) takes
LogEntryFields ==
    {"timestamp", "entry_id", "message", "level", "previous_hash", "entry_hash"}

\* LogEntry(**entry_data) does not raise: no unknown key, and no key
\* missing but entry_hash, which has a default
Loadable(entry_data) ==
    /\ DOMAIN entry_data \subseteq LogEntryFields
    /\ LogEntryFields \ {"entry_hash"} \subseteq DOMAIN entry_data

\* LogEntry(**entry_data) for an entry read from the file: __post_init__
\* computes entry_hash when the stored one is absent or empty
LoadEntry(entry_data) ==
    IF "entry_hash" \in DOMAIN entry_data /\ entry_data.entry_hash # Chr("")
    THEN entry_data
    ELSE LogEntry(entry_data.timestamp, entry_data.entry_id,
                  entry_data.message, entry_data.level,
                  entry_data.previous_hash)

\* _load_existing_log: entries are appended one by one; LogEntry(**entry_data)
\* raises a TypeError on a missing or unknown key, which ends the load with
\* a printed warning and the entries before it in place (a file that is not
\* JSON at all ends it before the first entry)
RECURSIVE LoadFrom(_, _)
LoadFrom(log_data, i) ==
    IF i > Len(log_data) THEN <<>>
    ELSE IF ~Loadable(log_data[i]) THEN <<>>
    ELSE <<LoadEntry(log_data[i])>> \o LoadFrom(log_data, i + 1)

load_existing_log(file) ==
    IF file.exists THEN LoadFrom(file.entries, 1) ELSE <<>>

\* the chain a previous run of the program left in the log file
PriorChain ==
    Appended(Appended(<<>>, 1, 1, <<Chr("a")>>, <<Chr("I")>>),
             1, 2, <<Chr("a"), Chr("I")>>, <<Chr("I")>>)

\* an entry as an older or foreign writer left it: without its level
WithoutLevel(e) ==
    [timestamp |-> e.timestamp, entry_id |-> e.entry_id, message |-> e.message,
     previous_hash |-> e.previous_hash, entry_hash |-> e.entry_hash]

\* the log files a new logger can find: none, the file of a previous run,
\* that file with a message rewritten, with an entry_hash blanked, and with
\* its second or its first entry unloadable
PriorFiles ==
    {[exists |-> FALSE, entries |-> <<>>],
     [exists |-> TRUE, entries |-> PriorChain],
     [exists |-> TRUE,
      entries |-> [PriorChain EXCEPT ![1].message = <<Chr("b")>>]],
     [exists |-> TRUE,
      entries |-> [PriorChain EXCEPT ![2].entry_hash = Chr("")]],
     [exists |-> TRUE,
      entries |-> <<PriorChain[1], WithoutLevel(PriorChain[2])>>],
     [exists |-> TRUE,
      entries |-> <<WithoutLevel(PriorChain[1]), PriorChain[2]>>]}

(***************************************************************************)
(* An outside party rewrites one field of one stored entry and leaves the  *)
(* stored entry_hash as it was.                                            *)
(***************************************************************************)
HashValues ==
    {genesis_hash} \cup {log_chain[i].entry_hash : i \in DOMAIN log_chain}
        \cup {Sha256(<<Chr("x")>>)}

Untouched == <<0, "none">>

TamperEntry(i, field, value) ==
    /\ tampered = Untouched
    /\ i \in DOMAIN log_chain
    /\ log_chain[i][field] # value
    /\ log_chain' = [log_chain EXCEPT ![i][field] = value]
    /\ tampered' = <<i, field>>
    /\ UNCHANGED <<now, uuids, log_file, selVars, wipeVars, certVars, appVars>>

Tamper ==
    \E i \in DOMAIN log_chain :
        \/ \E v \in Messages : TamperEntry(i, "message", v)
        \/ \E v \in Levels \cup {<<>>} : TamperEntry(i, "level", v)
        \/ \E v \in (0..MaxTime) \cup {10} : TamperEntry(i, "timestamp", v)
        \/ \E v \in HashValues : TamperEntry(i, "previous_hash", v)

(***************************************************************************)
(* AIWipeEngine: device facts and method selection                         *)
(***************************************************************************)
DeviceTypes == {"hdd", "ssd_sata", "ssd_nvme", "emmc", "usb", "unknown"}

\* list(WipeMethod), in declaration order
methods ==
    <<"ata_secure_erase", "nvme_secure_erase", "nvme_crypto_erase",
      "multipass_overwrite", "single_pass_random", "crypto_erase",
      "factory_reset">>

WipeMethods == {methods[i] : i \in DOMAIN methods}

Encryptions == {"None", "LUKS", "BitLocker", "Unknown"}

Interfaces == {"sata", "nvme", "usb"}

\* size_gb is kept in units of half a gigabyte: 1 is 0.5 GB, 4 is 2.0 GB
DeviceInfo(path, type, enc, se, hpa, size, iface) ==
    [device_path |-> path, device_type |-> type, model |-> "Samsung SSD 850",
     serial |-> "TEST123456", size_gb |-> size, interface |-> iface,
     encryption_status |-> enc, hpa_dco_present |-> hpa,
     secure_erase_supported |-> se]

Engines == {"e1", "e2"}

\* two of the tables str.__hash__() % 10 can be in a process: one that tells
\* all the strings apart and one with collisions
DistinctHashes ==
    [s \in DeviceTypes \cup Interfaces |->
        CASE s = "hdd" -> 0 [] s = "ssd_sata" -> 1 [] s = "ssd_nvme" -> 2
          [] s = "emmc" -> 3 [] s = "usb" -> 4 [] s = "unknown" -> 5
          [] s = "sata" -> 6 [] s = "nvme" -> 7]

CollidingHashes ==
    [s \in DeviceTypes \cup Interfaces |->
        CASE s = "hdd" -> 3 [] s = "ssd_sata" -> 3 [] s = "ssd_nvme" -> 8
          [] s = "emmc" -> 0 [] s = "usb" -> 4 [] s = "unknown" -> 4
          [] s = "sata" -> 9 [] s = "nvme" -> 9]

HashTables == {DistinctHashes, CollidingHashes}

method_features(facts) ==
    <<str_hash[facts.device_type],
      facts.size_gb,
      IF facts.encryption_status # "None" THEN 1 ELSE 0,
      IF facts.secure_erase_supported THEN 1 ELSE 0,
      IF facts.hpa_dco_present THEN 1 ELSE 0,
      str_hash[facts.interface]>>

rule_based_method_selection(facts) ==
    IF facts.encryption_status \in {"LUKS", "BitLocker"} THEN "crypto_erase"
    ELSE IF facts.device_type = "ssd_nvme" THEN
        IF facts.secure_erase_supported THEN "nvme_secure_erase"
        ELSE "nvme_crypto_erase"
    ELSE IF facts.device_type \in {"ssd_sata", "emmc"} THEN
        IF facts.secure_erase_supported THEN "ata_secure_erase"
        ELSE "single_pass_random"
    ELSE IF facts.device_type = "hdd" THEN
        IF facts.secure_erase_supported THEN "ata_secure_erase"
        ELSE "multipass_overwrite"
    ELSE "single_pass_random"

\* what method_selector.predict can answer: a class index; a model loaded
\* from the model file may answer outside list(WipeMethod)
Predictions == 0..Len(methods)

\* the forest is a fixed function of the feature vector, unknown before it
\* is asked: np.random.rand training data differ from engine to engine
Predicts(e, facts, p) ==
    LET f == method_features(facts)
    IN  IF \E q \in method_selector[e] : q[1] = f
        THEN <<f, p>> \in method_selector[e]
        ELSE p \in Predictions

Queried(e, facts, p) ==
    [method_selector EXCEPT ![e] = @ \cup {<<method_features(facts), p>>}]

\* select_optimal_wipe_method answers m; the forest's answer is p
select_optimal_wipe_method(e, facts, p, m) ==
    IF has_selector[e] = "forest" THEN
        /\ Predicts(e, facts, p)
        /\ method_selector' = Queried(e, facts, p)
        /\ m = (IF p < Len(methods) THEN methods[p + 1]
                ELSE rule_based_method_selection(facts))
    ELSE
        /\ p = 0
        /\ UNCHANGED method_selector
        /\ m = rule_based_method_selection(facts)

\* the facts the callers ask about: every rung of the rule ladder
SelFacts ==
    {DeviceInfo("/dev/sdb", ty, "None", se, FALSE, 4, "sata") :
        ty \in DeviceTypes, se \in BOOLEAN}
    \cup {DeviceInfo("/dev/sdb", "hdd", enc, FALSE, FALSE, 4, "sata") :
        enc \in Encryptions}

\* a caller asks an engine for the method of a device and keeps the answer
Select(e, facts) ==
    /\ Cardinality(selected) < MaxSelects
    /\ \E p \in Predictions, m \in WipeMethods :
        /\ select_optimal_wipe_method(e, facts, p, m)
        /\ selected' = selected \cup {[engine |-> e, facts |-> facts, method |-> m]}
    /\ UNCHANGED <<str_hash, has_selector, logVars, wipeVars, certVars, appVars>>

\* load_models: without a model file, or when loading it fails, a forest is
\* fitted on noise; a model file lacking 'method_selector' leaves None
SelInit ==
    /\ str_hash \in HashTables
    /\ has_selector \in [Engines -> {"forest", "none"}]
    /\ method_selector = [e \in Engines |-> {}]
    /\ selected = {}

(***************************************************************************)
(* WipeCore                                                                *)
(***************************************************************************)
None == <<>>
Some(x) == <<x>>

Min(a, b) == IF a < b THEN a ELSE b

Threads == {"t1", "t2"}

Devices == {"/dev/sdb", "/dev/sdc"}

\* WipeOperation(device_info=..., method=...) after __post_init__
WipeOperation(facts, method) ==
    [device_info |-> facts, method |-> method, start_time |-> None,
     end_time |-> None, status |-> "not_started", progress |-> 0,
     error_message |-> None, operation_log |-> <<>>,
     verification_hashes |-> [pre_wipe_sample |-> None,
                              post_wipe_sample |-> None]]

Terminal == {"completed", "failed", "cancelled"}

\* a thread that is not inside execute_wipe
IdleExec ==
    [pc |-> "idle", dev |-> "", op |-> 0, fallback |-> FALSE, tool |-> "",
     ticks |-> 0, notified |-> <<>>, method_trace |-> <<>>, ret |-> "none",
     reported |-> "", sampled |-> 0, mount |-> "", reads |-> <<>>]

Logged(op, text, arg) ==
    [op EXCEPT !.operation_log = Append(@, <<text, arg>>)]

\* the facts of the devices the callers prepare
WipeFacts ==
    {DeviceInfo("/dev/sdb", "ssd_sata", "None", TRUE, TRUE, 4, "sata"),
     DeviceInfo("/dev/sdb", "usb", "None", FALSE, FALSE, 1, "usb"),
     DeviceInfo("/dev/sdb", "hdd", "LUKS", FALSE, FALSE, 0, "sata"),
     DeviceInfo("/dev/sdb", "hdd", "None", FALSE, FALSE, 4, "sata")}

\* what prepare_wipe_operation changes: the selector it asks, the new
\* operation and the entry of current_operations
Prepared(e, facts) ==
    /\ \E p \in Predictions, m \in WipeMethods :
        /\ select_optimal_wipe_method(e, facts, p, m)
        /\ ops' = Append(ops,
              Logged(Logged(WipeOperation(facts, m),
                            "Operation prepared for", facts.device_path),
                     "Selected method:", m))
    /\ current_operations' =
          [current_operations EXCEPT ![facts.device_path] = Len(ops) + 1]

prepare_wipe_operation(e, facts) ==
    /\ Prepared(e, facts)
    /\ UNCHANGED <<exec, runs, str_hash, has_selector, selected, logVars,
                   certVars, appVars>>

\* execute_wipe up to the try statement
ExecuteStart(t, d) ==
    /\ exec[t].pc = "idle"
    /\ IF current_operations[d] = 0 THEN
            /\ exec' = [exec EXCEPT ![t] =
                           [IdleExec EXCEPT !.dev = d, !.ret = "false"]]
            /\ UNCHANGED <<ops, now>>
       ELSE \E ts \in Times :
            LET o == current_operations[d] IN
            /\ ts >= now
            /\ now' = ts
            /\ ops' = [ops EXCEPT ![o].start_time = Some(ts),
                                  ![o].status = "in_progress"]
            /\ exec' = [exec EXCEPT ![t] =
                           [IdleExec EXCEPT !.pc = "pre", !.dev = d, !.op = o,
                                            !.method_trace = <<ops[o].method>>]]
    /\ UNCHANGED <<current_operations, uuids, log_chain, log_file, tampered,
                   selVars, certVars, appVars>>

\* the part of the state a step inside execute_wipe leaves alone
WipeFrame ==
    UNCHANGED <<current_operations, runs, logVars, selVars, certVars, appVars>>

\* execute_wipe returns `ret` with the operation left as `op`
Return(t, op, notified, ret) ==
    /\ ops' = [ops EXCEPT ![exec[t].op] = op]
    /\ exec' = [exec EXCEPT ![t].pc = "idle", ![t].ret = ret,
                            ![t].notified = notified]

\* a step ends with execute_wipe still running, at `pc`
Continue(t, op, notified, pc, tool) ==
    /\ ops' = [ops EXCEPT ![exec[t].op] = op]
    /\ exec' = [exec EXCEPT ![t].pc = pc, ![t].tool = tool, ![t].ticks = 0,
                            ![t].notified = notified]

\* lines 86-88: _pre_wipe_checks and what execute_wipe does with its result;
\* `mount` is what _is_device_mounted and _unmount_device met
PreWipeResult(t, op, notified, ok, mount) ==
    /\ ops' = [ops EXCEPT ![exec[t].op] =
                  IF ok THEN op ELSE [op EXCEPT !.status = "failed"]]
    /\ exec' = [exec EXCEPT ![t].pc = IF ok THEN "wipe" ELSE "idle",
                            ![t].ret = IF ok THEN @ ELSE "false",
                            ![t].notified = notified,
                            ![t].mount = mount]

SampleHash == Sha256(<<Chr("first 1MB")>>)

pre_wipe_checks(t) ==
    /\ exec[t].pc = "pre"
    /\ LET op0 == Logged(ops[exec[t].op], "Starting pre-wipe checks", "")
           path == op0.device_info.device_path
       IN  \E exists \in BOOLEAN,
              mount \in {"not mounted", "unmounted", "umount error", "raised"},
              hpa_ok \in BOOLEAN, sample_ok \in BOOLEAN :
            IF ~exists THEN
                PreWipeResult(t,
                    [op0 EXCEPT !.error_message =
                        Some(<<Chr("Device "), Chr(path),
                               Chr(" does not exist")>>)],
                    exec[t].notified, FALSE, "")
            ELSE
            LET op1 == IF mount = "not mounted" THEN op0
                       ELSE Logged(op0, "is mounted, attempting to unmount", path)
            IN  IF mount = "raised" THEN
                    PreWipeResult(t,
                        [op1 EXCEPT !.error_message =
                            Some(<<Chr("Failed to unmount "), Chr(path)>>)],
                        exec[t].notified, FALSE, mount)
                ELSE
                LET op2 == IF ~op1.device_info.hpa_dco_present THEN op1
                           ELSE IF hpa_ok THEN Logged(op1, "Removing HPA/DCO", "")
                           ELSE Logged(Logged(op1, "Removing HPA/DCO", ""),
                                       "Warning: Could not remove HPA/DCO", "")
                    op3 == IF sample_ok
                           THEN [op2 EXCEPT !.verification_hashes.pre_wipe_sample =
                                                Some(SampleHash)]
                           ELSE Logged(op2, "Could not take pre-wipe sample", "")
                    op4 == Logged(op3, "Pre-wipe checks completed", "")
                IN  PreWipeResult(t, op4, Append(exec[t].notified, 10), TRUE,
                                  mount)
    /\ WipeFrame

\* an executor that, when the substituted method fails too, substitutes once
\* more and runs the sanitize step a third time
SanitizeResultRetrying(t, op, notified, ok, reported) ==
    IF exec[t].fallback /\ ~ok /\ Len(exec[t].method_trace) < 3 THEN
        /\ ops' = [ops EXCEPT ![exec[t].op] =
                      [op EXCEPT !.method = "multipass_overwrite"]]
        /\ exec' = [exec EXCEPT ![t].pc = "wipe", ![t].notified = notified,
                                ![t].tool = "", ![t].ticks = 0,
                                ![t].method_trace =
                                    Append(@, "multipass_overwrite")]
    ELSE IF exec[t].fallback THEN
        /\ ops' = [ops EXCEPT ![exec[t].op] = op]
        /\ exec' = [exec EXCEPT ![t].pc = "idle", ![t].notified = notified,
                                ![t].ret = IF ok THEN "true" ELSE "false"]
    ELSE IF ok THEN
        /\ ops' = [ops EXCEPT ![exec[t].op] = op]
        /\ exec' = [exec EXCEPT ![t].pc = "verify", ![t].notified = notified,
                                ![t].reported = reported]
    ELSE
        /\ ops' = [ops EXCEPT ![exec[t].op] = [op EXCEPT !.status = "failed"]]
        /\ exec' = [exec EXCEPT ![t].pc = "idle", ![t].notified = notified,
                                ![t].ret = "false", ![t].reported = reported]

\* lines 91-105 and 126: what execute_wipe does with the result of
\* _execute_wipe_method; `reported` is what the sanitize tool reported
SanitizeResult(t, op, notified, ok, reported) ==
    IF exec[t].fallback THEN
        /\ ops' = [ops EXCEPT ![exec[t].op] = op]
        /\ exec' = [exec EXCEPT ![t].pc = "idle", ![t].notified = notified,
                                ![t].ret = IF ok THEN "true" ELSE "false"]
    ELSE IF ok THEN
        /\ ops' = [ops EXCEPT ![exec[t].op] = op]
        /\ exec' = [exec EXCEPT ![t].pc = "verify", ![t].notified = notified,
                                ![t].reported = reported]
    ELSE
        /\ ops' = [ops EXCEPT ![exec[t].op] = [op EXCEPT !.status = "failed"]]
        /\ exec' = [exec EXCEPT ![t].pc = "idle", ![t].notified = notified,
                                ![t].ret = "false", ![t].reported = reported]

\* how a command run with subprocess.run(..., timeout=...) can end
RunOutcomes == {"ok", "not supported", "io error", "timeout", "raised"}

\* how a child started with subprocess.Popen can exit
ExitOutcomes == {"ok", "not supported", "io error"}

\* _single_pass_random up to the start of dd and of the monitor thread
SinglePassStart(t, op, started) ==
    LET op1 == Logged(op, "Starting single-pass random overwrite", "")
    IN  IF started THEN Continue(t, op1, exec[t].notified, "run", "dd")
        ELSE SanitizeResult(t, Logged(op1, "Single-pass overwrite error", ""),
                            exec[t].notified, FALSE, "raised")

\* _execute_wipe_method: the dispatch, and each method up to its first
\* long-running child
execute_wipe_method(t) ==
    /\ exec[t].pc = "wipe"
    /\ LET o == exec[t].op
           method == ops[o].method
           op == Logged(ops[o], "Executing wipe method:", method)
           n == exec[t].notified
       IN  \E r \in RunOutcomes, size_known \in BOOLEAN :
            CASE method = "ata_secure_erase" ->
                    LET op1 == Logged(op, "Starting ATA Secure Erase", "") IN
                    IF r = "ok" THEN Continue(t, op1, Append(n, 30), "run", "hdparm")
                    ELSE IF r = "timeout" THEN
                        SanitizeResult(t, Logged(op1, "ATA Secure Erase timed out", ""),
                                       n, FALSE, r)
                    ELSE IF r = "raised" THEN
                        SanitizeResult(t, Logged(op1, "ATA Secure Erase error", ""),
                                       n, FALSE, r)
                    ELSE SanitizeResult(t,
                            Logged(op1, "Failed to set security password:", r),
                            n, FALSE, r)
              [] method = "nvme_secure_erase" ->
                    LET op1 == Logged(op, "Starting NVMe Secure Erase", "") IN
                    IF r = "ok" THEN Continue(t, op1, Append(n, 30), "run", "nvme")
                    ELSE IF r \in {"timeout", "raised"} THEN
                        SanitizeResult(t, Logged(op1, "NVMe Secure Erase error", ""),
                                       n, FALSE, r)
                    ELSE SanitizeResult(t,
                            Logged(op1, "Failed to list NVMe namespaces", ""),
                            n, FALSE, r)
              [] method = "nvme_crypto_erase" ->
                    LET op1 == Logged(op, "Starting NVMe Crypto Erase", "") IN
                    IF r = "ok" THEN
                        SanitizeResult(t,
                            Logged(op1, "NVMe Crypto Erase completed successfully", ""),
                            Append(n, 90), TRUE, r)
                    ELSE IF r \in {"timeout", "raised"} THEN
                        SanitizeResult(t, Logged(op1, "NVMe Crypto Erase error", ""),
                                       n, FALSE, r)
                    ELSE SanitizeResult(t,
                            Logged(op1, "NVMe Crypto Erase failed:", r), n, FALSE, r)
              [] method = "multipass_overwrite" ->
                    LET op1 == Logged(op, "Starting multi-pass overwrite (3 passes)", "") IN
                    IF size_known THEN
                        Continue(t, Logged(op1, "Starting pass", "1"), n, "run",
                                 "overwrite")
                    ELSE SanitizeResult(t,
                            Logged(op1, "Could not determine device size", ""),
                            n, FALSE, "io error")
              [] method = "single_pass_random" ->
                    SinglePassStart(t, op, r # "raised")
              [] method = "crypto_erase" ->
                    LET enc == op.device_info.encryption_status
                        op1 == Logged(op, "Starting crypto erase for", enc)
                    IN  IF enc = "LUKS" THEN
                            IF r = "ok" THEN
                                SanitizeResult(t,
                                    Logged(op1, "LUKS header destroyed successfully", ""),
                                    Append(n, 90), TRUE, r)
                            ELSE IF r \in {"timeout", "raised"} THEN
                                SanitizeResult(t, Logged(op1, "Crypto erase error", ""),
                                               n, FALSE, r)
                            ELSE SanitizeResult(t, Logged(op1, "LUKS erase failed:", r),
                                                n, FALSE, r)
                        ELSE IF enc = "BitLocker" THEN
                            SanitizeResult(t,
                                Logged(op1, "BitLocker crypto erase not implemented", ""),
                                n, FALSE, "not supported")
                        ELSE SinglePassStart(t,
                                Logged(op1, "No encryption detected, falling back to overwrite", ""),
                                r # "raised")
              [] OTHER ->
                    SanitizeResult(t,
                        [op EXCEPT !.error_message =
                            Some(<<Chr("Unsupported wipe method: "), Chr(method)>>)],
                        n, FALSE, "not supported")
    /\ WipeFrame

\* seconds slept between two polls of the child, per tool
PollSeconds(tool) == IF tool = "hdparm" THEN 5 ELSE 2

\* min(30.0 + (elapsed / estimated_duration) * 60.0, 90.0) at the k-th poll;
\* estimated_duration is size_gb * 2 for ATA and size_gb * 0.5 for NVMe
EstimatedProgress(tool, size, k) ==
    LET elapsed == PollSeconds(tool) * k
    IN  IF tool = "hdparm" THEN Min(30 + (elapsed * 60) \div size, 90)
        ELSE Min(30 + (elapsed * 60 * 4) \div size, 90)

ToolName(tool) == IF tool = "hdparm" THEN "ATA Secure Erase" ELSE "NVMe Secure Erase"

\* one turn of `while process.poll() is None` in _ata_secure_erase and
\* _nvme_secure_erase: the child is still running
Poll(t) ==
    /\ exec[t].pc = "run"
    /\ exec[t].tool \in {"hdparm", "nvme"}
    /\ exec[t].ticks < MaxTicks
    /\ LET op == ops[exec[t].op]
           size == op.device_info.size_gb
       IN  IF size = 0 THEN
                \* elapsed / estimated_duration: float division by zero
                SanitizeResult(t, Logged(op, ToolName(exec[t].tool), "error"),
                               exec[t].notified, FALSE, "raised")
           ELSE
                /\ exec' = [exec EXCEPT
                      ![t].ticks = @ + 1,
                      ![t].notified =
                          Append(@, EstimatedProgress(exec[t].tool, size,
                                                      exec[t].ticks))]
                /\ UNCHANGED ops
    /\ WipeFrame

\* the child has exited: process.communicate() and the return code
ChildExit(t) ==
    /\ exec[t].pc = "run"
    /\ exec[t].tool \in {"hdparm", "nvme"}
    /\ LET op == ops[exec[t].op] IN
       \E r \in ExitOutcomes :
            IF r = "ok" THEN
                SanitizeResult(t,
                    Logged(op, ToolName(exec[t].tool), "completed successfully"),
                    Append(exec[t].notified, 90), TRUE, r)
            ELSE SanitizeResult(t, Logged(op, ToolName(exec[t].tool), r),
                                exec[t].notified, FALSE, r)
    /\ WipeFrame

\* _monitor_dd_progress: one turn of the monitor thread while dd runs
MonitorDdProgress(t) ==
    /\ exec[t].pc = "run"
    /\ exec[t].tool = "dd"
    /\ exec[t].ticks < MaxTicks
    /\ LET o == exec[t].op IN
       IF ops[o].progress < 80 THEN
            /\ ops' = [ops EXCEPT ![o].progress = @ + 2]
            /\ exec' = [exec EXCEPT ![t].ticks = @ + 1,
                                    ![t].notified = Append(@, ops[o].progress + 2)]
       ELSE
            /\ exec' = [exec EXCEPT ![t].ticks = @ + 1]
            /\ UNCHANGED ops
    /\ WipeFrame

\* dd has exited and the monitor thread was joined
DdExit(t) ==
    /\ exec[t].pc = "run"
    /\ exec[t].tool = "dd"
    /\ LET op == ops[exec[t].op] IN
       \E r \in ExitOutcomes :
            IF r = "ok" THEN
                SanitizeResult(t,
                    Logged(op, "Single-pass random overwrite completed successfully", ""),
                    Append(exec[t].notified, 90), TRUE, r)
            ELSE SanitizeResult(t, Logged(op, "Single-pass overwrite failed:", r),
                                exec[t].notified, FALSE, r)
    /\ WipeFrame

PassName == <<"1", "2", "3">>

\* one pass of _multipass_overwrite: _overwrite_device reports after each
\* chunk (here: at half and at the end of the device), then the pass is
\* reported complete
OverwritePass(t) ==
    /\ exec[t].pc = "run"
    /\ exec[t].tool = "overwrite"
    /\ LET op == ops[exec[t].op]
           pass_num == exec[t].ticks + 1
           progress_base == 30 + (pass_num - 1) * 20
       IN  \E written \in BOOLEAN :
            IF ~written THEN
                SanitizeResult(t, Logged(op, "Pattern overwrite failed", ""),
                               Append(exec[t].notified, progress_base + 10),
                               FALSE, "io error")
            ELSE
            LET n == exec[t].notified \o
                     <<progress_base + 10, progress_base + 20, progress_base + 20>>
            IN  IF pass_num = Len(PassName) THEN
                    SanitizeResult(t,
                        Logged(op, "Multi-pass overwrite completed successfully", ""),
                        n, TRUE, "ok")
                ELSE
                    /\ ops' = [ops EXCEPT ![exec[t].op] =
                                  Logged(op, "Starting pass", PassName[pass_num + 1])]
                    /\ exec' = [exec EXCEPT ![t].ticks = @ + 1, ![t].notified = n]
    /\ WipeFrame

\* int(size_gb)
IntGb(size) == size \div 2

\* the progress reported while `passed` samples were checked and found wiped:
\* 90.0 + (i / sample_count) * 10.0 for every tenth i
VerifyProgress(passed, sample_count) ==
    [j \in 1..((passed + 9) \div 10) |->
        90 + ((j - 1) * 10 * 10) \div sample_count]

\* set(data) of the 512 bytes a sector read returns: its distinct byte values
Zeros == {0}

\* a sector that still holds what was on the device before the wipe
Residual == {68, 65, 84}

\* 512 bytes of /dev/urandom
Urandom == 0..255

\* patterns of _multipass_overwrite; the source writes each backslash twice,
\* so b'\\x00' is the four bytes \ x 0 0 and not the byte 0
patterns == <<{92, 120, 48}, {92, 120, 102}, {92, 120, 57, 50, 52}>>

\* what the child that sanitized last wrote over the device, if it wrote bytes
Written(tool) ==
    CASE tool = "dd" -> {Urandom}
      [] tool = "overwrite" -> {patterns[Len(patterns)]}
      [] OTHER -> {}

\* what a read of a sampled sector can return after that child
SectorReads(tool) == {Zeros, Residual} \cup Written(tool)

\* len(set(data)) <= 2
_verify_sector_wiped(data) == Cardinality(data) <= 2

\* a sampling loop that goes on after a rejected sector
RECURSIVE VerifyLoopNoBreak(_, _)
VerifyLoopNoBreak(device, i) ==
    IF i > Len(device) THEN <<>>
    ELSE <<device[i]>> \o VerifyLoopNoBreak(device, i + 1)

\* lines 410-414: the sectors the loop reads of `device`, the content of the
\* sampled sectors in order; the loop is left at the first rejected sector
RECURSIVE VerifyLoop(_, _)
VerifyLoop(device, i) ==
    IF i > Len(device) THEN <<>>
    ELSE IF ~_verify_sector_wiped(device[i]) THEN <<device[i]>>
    ELSE <<device[i]>> \o VerifyLoop(device, i + 1)

\* _post_wipe_verification and lines 95-103 of execute_wipe
post_wipe_verification(t) ==
    /\ exec[t].pc = "verify"
    /\ LET o == exec[t].op
           op == Logged(ops[o], "Starting post-wipe verification", "")
           sample_count == Min(100, IntGb(op.device_info.size_gb))
       IN  \E device \in [1..sample_count -> SectorReads(exec[t].tool)],
              sample_ok \in BOOLEAN, ts \in Times :
            LET reads == VerifyLoop(device, 1)
                verification_passed ==
                    \A i \in DOMAIN reads : _verify_sector_wiped(reads[i])
                passed == Cardinality({i \in DOMAIN reads :
                                          _verify_sector_wiped(reads[i])})
                n == exec[t].notified \o VerifyProgress(passed, sample_count)
            IN
            /\ ts >= now
            /\ IF verification_passed THEN
                    LET op1 == Logged(op, "Post-wipe verification passed", "")
                        op2 == IF sample_ok
                               THEN [op1 EXCEPT
                                       !.verification_hashes.post_wipe_sample =
                                           Some(SampleHash)]
                               ELSE Logged(op1, "Could not take post-wipe sample", "")
                    IN  /\ now' = ts
                        /\ ops' = [ops EXCEPT ![o] =
                              [op2 EXCEPT !.status = "completed",
                                          !.end_time = Some(ts),
                                          !.progress = 100]]
                        /\ exec' = [exec EXCEPT ![t].pc = "idle", ![t].ret = "true",
                                                ![t].notified = Append(n, 100),
                                                ![t].sampled = Len(reads),
                                                ![t].reads = reads]
               ELSE
                    /\ now' = now
                    /\ ops' = [ops EXCEPT ![o] =
                          [Logged(op, "Post-wipe verification failed - data remnants detected", "")
                             EXCEPT !.status = "failed",
                                    !.error_message =
                                        Some(<<Chr("Post-wipe verification failed")>>)]]
                    /\ exec' = [exec EXCEPT ![t].pc = "idle", ![t].ret = "false",
                                            ![t].notified = n,
                                            ![t].sampled = Len(reads),
                                            ![t].reads = reads]
    /\ UNCHANGED <<current_operations, runs, uuids, log_chain, log_file,
                   tampered, selVars, certVars, appVars>>

(***************************************************************************)
(* The except clause of execute_wipe                                       *)
(***************************************************************************)
\* str.lower() on the phrases the messages below are made of
Lower(phrase) ==
    CASE phrase = "Not Supported" -> "not supported"
      [] phrase = "Permission denied" -> "permission denied"
      [] OTHER -> phrase

\* `phrase in error_message.lower()`
Contains(message, phrase) ==
    \E i \in DOMAIN message : Lower(message[i].c) = phrase

\* confidence is kept in hundredths
diagnose_and_resolve_errors(error_message) ==
    LET resolution ==
            [diagnosis |-> "Unknown error",
             suggested_actions |-> "Check system logs, Retry operation",
             alternative_method |-> None, confidence |-> 50]
    IN  IF Contains(error_message, "permission denied") THEN
            [resolution EXCEPT !.diagnosis = "Insufficient permissions",
                               !.suggested_actions = "Run as root/administrator",
                               !.confidence = 90]
        ELSE IF Contains(error_message, "device busy")
                \/ Contains(error_message, "resource busy") THEN
            [resolution EXCEPT !.diagnosis = "Device is mounted or in use",
                               !.suggested_actions = "Unmount device",
                               !.confidence = 95]
        ELSE IF Contains(error_message, "not supported") THEN
            [resolution EXCEPT !.diagnosis = "Operation not supported by device",
                               !.suggested_actions = "Try alternative wipe method",
                               !.alternative_method = Some("single_pass_random"),
                               !.confidence = 80]
        ELSE IF Contains(error_message, "timeout") THEN
            [resolution EXCEPT !.diagnosis = "Operation timeout",
                               !.suggested_actions = "Increase timeout",
                               !.confidence = 70]
        ELSE resolution

\* str(e) of the exceptions that reach the except clause
ErrorMessages ==
    {<<Chr("Not Supported")>>,
     <<Chr("Permission denied"), Chr("not supported")>>,
     <<Chr("timeout")>>,
     <<Chr("out of memory")>>}

\* lines 107-126: an exception no inner handler absorbed (a MemoryError, a
\* TypeError raised on malformed device facts, ...) leaves the try body
ExceptClause(t, error_message) ==
    /\ exec[t].pc \in {"pre", "wipe", "run", "verify"}
    /\ ~exec[t].fallback
    /\ LET o == exec[t].op
           resolution == diagnose_and_resolve_errors(error_message)
           op1 == [ops[o] EXCEPT !.status = "failed",
                                 !.error_message = Some(error_message)]
           op2 == Logged(Logged(op1, "Error diagnosis:", resolution.diagnosis),
                         "Suggested actions:", resolution.suggested_actions)
       IN  IF resolution.alternative_method # None /\ resolution.confidence > 70
           THEN LET alt == resolution.alternative_method[1] IN
                /\ ops' = [ops EXCEPT ![o] =
                              [Logged(op2, "Trying alternative method:", alt)
                                 EXCEPT !.method = alt]]
                /\ exec' = [exec EXCEPT ![t].pc = "wipe", ![t].fallback = TRUE,
                                        ![t].tool = "", ![t].ticks = 0,
                                        ![t].method_trace = Append(@, alt)]
           ELSE Return(t, op2, exec[t].notified, "false")
    /\ WipeFrame

\* an exception raised while the except clause runs _execute_wipe_method
\* leaves execute_wipe
RaisedInExceptClause(t) ==
    /\ exec[t].pc \in {"wipe", "run"}
    /\ exec[t].fallback
    /\ Return(t, ops[exec[t].op], exec[t].notified, "raised")
    /\ WipeFrame

\* WipeCore(ai_engine): no operation prepared, no call running
CoreInit ==
    /\ ops = <<>>
    /\ current_operations = [d \in Devices |-> 0]
    /\ exec = [t \in Threads |-> IdleExec]
    /\ runs = 0

LogInit ==
    /\ now = 1
    /\ uuids = 0
    /\ log_chain = <<>>
    /\ log_file = [exists |-> FALSE, entries |-> <<>>]
    /\ tampered = Untouched

\* TamperProofLogger(log_file_path) over the file it finds
LoggerInit ==
    /\ now = 1
    /\ log_file \in PriorFiles
    /\ prior_log = log_file
    /\ log_chain = load_existing_log(log_file)
    /\ uuids = Len(PriorChain)
    /\ tampered = Untouched

\* a thread that is not inside add_entry
IdleAdd ==
    [pc |-> "idle", timestamp |-> 0, entry_id |-> 0, previous_hash |-> genesis_hash,
     message |-> <<>>, level |-> <<>>]

\* neither key file exists
NoKeyFiles == [private |-> "missing", public |-> "missing"]

\* a device that has no WipeThread in wipe_threads; `cancelled_during` notes
\* where execute_wipe stood when cancel() was called
NoThread == [state |-> "none", is_cancelled |-> FALSE, cancelled_during |-> ""]

\* no caller is inside add_entry, there was no log file at construction,
\* nothing was built and no window drives a wipe
AppInit ==
    /\ adding = [t \in Threads |-> IdleAdd]
    /\ prior_log = [exists |-> FALSE, entries |-> <<>>]
    /\ builds = <<>>
    /\ wipe_threads = [d \in Devices |-> NoThread]
    /\ signals = <<>>
    /\ key_files = NoKeyFiles
    /\ signer_history = <<>>

(***************************************************************************)
(* add_entry as the interpreter runs it when several threads call it: the  *)
(* method takes no lock, and a thread switch can fall between any two of   *)
(* its statements.                                                         *)
(***************************************************************************)
AddFrame ==
    UNCHANGED <<tampered, prior_log, key_files, signer_history, builds, wipe_threads, signals, selVars,
                wipeVars, certVars>>

\* lines 82-84: the clock, the uuid and the hash of the last entry are read
AddRead(t, message, level) ==
    /\ adding[t].pc = "idle"
    /\ \E ts \in Times :
        /\ ts >= now
        /\ now' = ts
        /\ adding' = [adding EXCEPT ![t] =
              [pc |-> "append", timestamp |-> ts, entry_id |-> uuids + 1,
               previous_hash |-> PreviousHash(log_chain),
               message |-> message, level |-> level]]
    /\ uuids' = uuids + 1
    /\ UNCHANGED <<log_chain, log_file>>
    /\ AddFrame

\* lines 86-94: the entry is made from the values read and appended
AddAppend(t) ==
    /\ adding[t].pc = "append"
    /\ log_chain' = Append(log_chain,
          LogEntry(adding[t].timestamp, Uuid4(adding[t].entry_id),
                   adding[t].message, adding[t].level,
                   adding[t].previous_hash))
    /\ adding' = [adding EXCEPT ![t].pc = "save"]
    /\ UNCHANGED <<now, uuids, log_file>>
    /\ AddFrame

\* lines 95-96: _save_log writes the chain as it is now, and add_entry returns
AddSave(t) ==
    /\ adding[t].pc = "save"
    /\ \E ok \in BOOLEAN : log_file' = SaveLog(log_chain, ok)
    /\ adding' = [adding EXCEPT ![t] = IdleAdd]
    /\ UNCHANGED <<now, uuids, log_chain>>
    /\ AddFrame

(***************************************************************************)
(* Python values and JSON                                                  *)
(*                                                                         *)
(* A Python value is [ty, val]: val is <<>> for None, <<b>> for a bool,    *)
(* <<h>> for a float of h halves (3 is 1.5), the text of a str, the items  *)
(* of a list, and the [k, v] members of a dict in insertion order.         *)
(***************************************************************************)
PyNone == [ty |-> "NoneType", val |-> <<>>]
PyBool(b) == [ty |-> "bool", val |-> <<b>>]
PyFloat(halves) == [ty |-> "float", val |-> <<halves>>]
PyStr(text) == [ty |-> "str", val |-> text]
PyList(items) == [ty |-> "list", val |-> items]
PyDict(members) == [ty |-> "dict", val |-> members]

\* an Optional[...] attribute as a Python value
PySeconds(t) == PyFloat(2 * t)

PyOptionalSeconds(x) == IF x = None THEN PyNone ELSE PySeconds(x[1])

PyOptionalStr(x) == IF x = None THEN PyNone ELSE PyStr(x[1])

Has(dict, key) == \E i \in DOMAIN dict.val : dict.val[i].k = key

\* dict[key]
Item(dict, key) ==
    dict.val[CHOOSE i \in DOMAIN dict.val : dict.val[i].k = key].v

\* dict.get(key, default)
Get(dict, key, default) == IF Has(dict, key) THEN Item(dict, key) ELSE default

DropKey(members, key) == SelectSeq(members, LAMBDA m : m.k # key)

\* dict.pop(key, None), for the dict that is left
Pop(dict, key) == PyDict(DropKey(dict.val, key))

\* dict[key] = value
SetItem(dict, key, value) ==
    IF Has(dict, key)
    THEN PyDict([i \in DOMAIN dict.val |->
                    IF dict.val[i].k = key THEN [k |-> key, v |-> value]
                    ELSE dict.val[i]])
    ELSE PyDict(Append(dict.val, [k |-> key, v |-> value]))

\* all the keys a certificate uses, in the order sorted() gives them
KeyOrder ==
    <<"blockchain_anchor", "build_hash", "certificate_id", "compliance_info",
      "device_info", "device_path_hash", "device_type", "duration_seconds",
      "encryption_status", "end_time", "entry_hash", "entry_id",
      "error_message", "hpa_dco_present", "interface", "level", "message",
      "method", "method_classification", "model", "name", "operation_log",
      "post_wipe_sample", "pre_wipe_sample", "progress",
      "secure_erase_supported", "serial_hash", "signature",
      "signer_fingerprint", "size_gb", "standards", "start_time", "status",
      "timestamp", "tool_info", "verification_hashes", "verification_level",
      "version", "wipe_operation">>

\* sort_keys=True
SortKeys(members) ==
    LET keys == SelectSeq(KeyOrder,
                          LAMBDA k : \E i \in DOMAIN members : members[i].k = k)
    IN  [j \in DOMAIN keys |->
            members[CHOOSE i \in DOMAIN members : members[i].k = keys[j]]]

\* float.__repr__ of h halves: "1.5", "2.0"
FloatRepr(h) ==
    Digits(h \div 2) \o <<Chr("."), Chr(IF h % 2 = 1 THEN "5" ELSE "0")>>

DigitValue(ch) == (CHOOSE d \in DOMAIN DigitChar : DigitChar[d] = ch.c) - 1

RECURSIVE ParseInt(_)
ParseInt(digits) ==
    IF digits = <<>> THEN 0
    ELSE 10 * ParseInt(SubSeq(digits, 1, Len(digits) - 1))
         + DigitValue(digits[Len(digits)])

\* float(literal) of a JSON number with one fraction digit, in halves
ParseFloat(literal) ==
    LET n == Len(literal)
    IN  2 * ParseInt(SubSeq(literal, 1, n - 2))
        + (IF DigitValue(literal[n]) >= 5 THEN 1 ELSE 0)

Quoted(text) == <<Chr("\"")>> \o text \o <<Chr("\"")>>

\* json.dumps(obj, sort_keys=True, separators=(',', ':'))
RECURSIVE Dumps(_)
RECURSIVE DumpsItems(_)
RECURSIVE DumpsMembers(_)
Dumps(obj) ==
    CASE obj.ty = "NoneType" -> <<Chr("null")>>
      [] obj.ty = "bool" -> <<Chr(IF obj.val[1] THEN "true" ELSE "false")>>
      [] obj.ty = "float" -> FloatRepr(obj.val[1])
      [] obj.ty = "str" -> Quoted(obj.val)
      [] obj.ty = "list" -> <<Chr("[")>> \o DumpsItems(obj.val) \o <<Chr("]")>>
      [] obj.ty = "dict" ->
            <<Chr("{")>> \o DumpsMembers(SortKeys(obj.val)) \o <<Chr("}")>>

DumpsItems(items) ==
    IF items = <<>> THEN <<>>
    ELSE Dumps(items[1])
         \o (IF Len(items) = 1 THEN <<>> ELSE <<Chr(",")>>)
         \o DumpsItems(Tail(items))

DumpsMembers(members) ==
    IF members = <<>> THEN <<>>
    ELSE Quoted(<<Chr(members[1].k)>>) \o <<Chr(":")>> \o Dumps(members[1].v)
         \o (IF Len(members) = 1 THEN <<>> ELSE <<Chr(",")>>)
         \o DumpsMembers(Tail(members))

\* json.dump(obj, f, indent=2): the document written, as its JSON values
\* [js, lit]; an object keeps its members in the order they were written
RECURSIVE JsonDump(_)
JsonDump(obj) ==
    CASE obj.ty = "NoneType" -> [js |-> "null", lit |-> <<>>]
      [] obj.ty = "bool" ->
            [js |-> IF obj.val[1] THEN "true" ELSE "false", lit |-> <<>>]
      [] obj.ty = "float" -> [js |-> "number", lit |-> FloatRepr(obj.val[1])]
      [] obj.ty = "str" -> [js |-> "string", lit |-> obj.val]
      [] obj.ty = "list" ->
            [js |-> "array",
             lit |-> [i \in DOMAIN obj.val |-> JsonDump(obj.val[i])]]
      [] obj.ty = "dict" ->
            [js |-> "object",
             lit |-> [i \in DOMAIN obj.val |->
                        [k |-> obj.val[i].k, v |-> JsonDump(obj.val[i].v)]]]

\* json.load(f)
RECURSIVE JsonLoad(_)
JsonLoad(doc) ==
    CASE doc.js = "null" -> PyNone
      [] doc.js = "true" -> PyBool(TRUE)
      [] doc.js = "false" -> PyBool(FALSE)
      [] doc.js = "number" -> PyFloat(ParseFloat(doc.lit))
      [] doc.js = "string" -> PyStr(doc.lit)
      [] doc.js = "array" ->
            PyList([i \in DOMAIN doc.lit |-> JsonLoad(doc.lit[i])])
      [] doc.js = "object" ->
            PyDict([i \in DOMAIN doc.lit |->
                      [k |-> doc.lit[i].k, v |-> JsonLoad(doc.lit[i].v)]])

(***************************************************************************)
(* CryptographicSigner                                                     *)
(***************************************************************************)
Keys == {"k1", "k2"}

\* private_key.sign(data, ECDSA(SHA256)): only the holder of the private
\* key of the pair can make it
EcdsaSign(key, data) == [key |-> key, data |-> data]

\* bytes that are no signature of anything
Malformed == [key |-> "", data |-> <<>>]

\* a verifier that checks who signed, not what was signed
EcdsaVerifyAnyData(key, signature_bytes, data) == signature_bytes.key = key

\* public_key.verify(signature_bytes, data, ECDSA(SHA256)) does not raise
EcdsaVerify(key, signature_bytes, data) ==
    /\ signature_bytes.key = key
    /\ signature_bytes.data = data

b64encode(bytes) == <<[b64 |-> bytes]>>

b64decode(text) ==
    IF Len(text) = 1 /\ "b64" \in DOMAIN text[1] THEN text[1].b64
    ELSE Malformed

sign_data(key, data) == b64encode(EcdsaSign(key, data))

\* CryptographicSigner.verify_signature
verify_signature(key, data, signature) ==
    EcdsaVerify(key, b64decode(signature), data)

\* sha256(...).hexdigest()[:16]
Sha16(data) == [h16 |-> data]

get_public_key_fingerprint(key) == <<Sha16(<<Chr(key)>>)>>

\* the key pairs ec.generate_private_key hands out, in order
KeyNames == <<"k1", "k2", "k3", "k4", "k5", "k6">>

\* what a key file can hold besides a PEM key: bytes that do not parse
Corrupt == "corrupt"

\* _generate_keys: a new pair is drawn and written over both files
_generate_keys(n) == [private |-> KeyNames[n], public |-> KeyNames[n]]

\* _load_or_generate_keys over the key files it finds; n numbers the pair it
\* would generate. _load_keys raises when a file does not parse
_load_or_generate_keys(files, n) ==
    IF files.private # "missing" /\ files.public # "missing"
       /\ files.private # Corrupt /\ files.public # Corrupt
    THEN [files |-> files, private_key |-> files.private]
    ELSE [files |-> _generate_keys(n), private_key |-> KeyNames[n]]

\* CryptographicSigner(): the constructor
CryptographicSigner ==
    /\ Len(signer_history) < MaxSigners
    /\ LET n == Cardinality({signer_history[i] : i \in DOMAIN signer_history}) + 1
           loaded == _load_or_generate_keys(key_files, n)
       IN  /\ key_files' = loaded.files
           /\ signer' = loaded.private_key
           /\ signer_history' = Append(signer_history, loaded.private_key)
    /\ UNCHANGED <<public_key, certs, verdict, logVars, selVars, wipeVars,
                   adding, prior_log, builds, wipe_threads, signals>>

\* the public key file is removed, or what it holds stops parsing
PublicKeyFileLost(content) ==
    /\ key_files.public \notin {"missing", Corrupt}
    /\ key_files' = [key_files EXCEPT !.public = content]
    /\ UNCHANGED <<signer_history, certVars, logVars, selVars, wipeVars,
                   adding, prior_log, builds, wipe_threads, signals>>

(***************************************************************************)
(* CertificateGenerator                                                    *)
(***************************************************************************)
INFO == <<Chr("INFO")>>

\* datetime.now(timezone.utc).isoformat() at clock reading ts
IsoFormat(ts) == <<Chr("2025-09-01T00:00:")>> \o Digits(ts) \o <<Chr("+00:00")>>

_get_nist_classification(method) ==
    CASE method \in {"ata_secure_erase", "nvme_secure_erase",
                     "nvme_crypto_erase", "crypto_erase",
                     "multipass_overwrite"} -> "Purge"
      [] method \in {"single_pass_random", "factory_reset"} -> "Clear"
      [] OTHER -> "Unknown"

Member(key, value) == [k |-> key, v |-> value]

Word(string) == PyStr(<<Chr(string)>>)

\* verification_hashes holds only the samples that were taken
HashesDict(hashes) ==
    PyDict((IF hashes.pre_wipe_sample = None THEN <<>>
            ELSE <<Member("pre_wipe_sample",
                          PyStr(<<hashes.pre_wipe_sample[1]>>))>>)
           \o (IF hashes.post_wipe_sample = None THEN <<>>
               ELSE <<Member("post_wipe_sample",
                             PyStr(<<hashes.post_wipe_sample[1]>>))>>))

\* asdict(_prepare_certificate_data(wipe_operation)), fields in the order
\* CertificateData declares them
_prepare_certificate_data(op, chain, id, ts, key) ==
    LET facts == op.device_info
        device_info == PyDict(<<
            Member("device_path_hash",
                   PyStr(<<Sha16(<<Chr(facts.device_path)>>)>>)),
            Member("device_type", Word(facts.device_type)),
            Member("model", Word(facts.model)),
            Member("serial_hash", PyStr(<<Sha16(<<Chr(facts.serial)>>)>>)),
            Member("size_gb", PyFloat(facts.size_gb)),
            Member("interface", Word(facts.interface)),
            Member("encryption_status", Word(facts.encryption_status)),
            Member("hpa_dco_present", PyBool(facts.hpa_dco_present)),
            Member("secure_erase_supported",
                   PyBool(facts.secure_erase_supported))>>)
        wipe_op_data == PyDict(<<
            Member("method", Word(op.method)),
            Member("status", Word(op.status)),
            Member("start_time", PyOptionalSeconds(op.start_time)),
            Member("end_time", PyOptionalSeconds(op.end_time)),
            Member("duration_seconds",
                   IF op.end_time # None /\ op.start_time # None
                      /\ op.end_time[1] # 0 /\ op.start_time[1] # 0
                   THEN PySeconds(op.end_time[1] - op.start_time[1])
                   ELSE PyNone),
            Member("progress", PyFloat(2 * op.progress)),
            Member("error_message", PyOptionalStr(op.error_message))>>)
        operation_log == PyList([i \in DOMAIN chain |-> PyDict(<<
            Member("timestamp", PySeconds(chain[i].timestamp)),
            Member("entry_id", PyStr(<<chain[i].entry_id>>)),
            Member("message", PyStr(chain[i].message)),
            Member("level", PyStr(chain[i].level)),
            Member("entry_hash", PyStr(<<chain[i].entry_hash>>))>>)])
        tool_info == PyDict(<<
            Member("name", Word("VeriWipe")),
            Member("version", Word("1.0.0")),
            Member("build_hash", Word("development")),
            Member("signer_fingerprint",
                   PyStr(get_public_key_fingerprint(key)))>>)
        hashes == HashesDict(op.verification_hashes)
        compliance_info == PyDict(<<
            Member("standards", PyList(<<Word("NIST SP 800-88")>>)),
            Member("method_classification",
                   Word(_get_nist_classification(op.method))),
            Member("verification_level",
                   Word(IF hashes.val # <<>> THEN "Basic" ELSE "None"))>>)
    IN  PyDict(<<
            Member("certificate_id", PyStr(<<Uuid4(id)>>)),
            Member("timestamp", PyStr(IsoFormat(ts))),
            Member("device_info", device_info),
            Member("wipe_operation", wipe_op_data),
            Member("verification_hashes", hashes),
            Member("operation_log", operation_log),
            Member("tool_info", tool_info),
            Member("compliance_info", compliance_info),
            Member("signature", PyStr(<<>>)),
            Member("blockchain_anchor", PyNone)>>)

\* the part of the certificate _sign_certificate signs
SignedFields(cert_dict) == Pop(Pop(cert_dict, "signature"), "blockchain_anchor")

_sign_certificate(cert_dict, key) == sign_data(key, Dumps(SignedFields(cert_dict)))

\* CertificateGenerator(logger, signer): the signer loads or generates its
\* key pair and the constructor logs its first entry
CertificateGenerator(key) ==
    /\ signer = ""
    /\ signer' = key
    /\ add_entry(<<Chr("Certificate generator initialized")>>, INFO)
    /\ UNCHANGED <<public_key, certs, verdict>>

\* _prepare_certificate_data(wipe_operation) followed by the canonical form
\* _sign_certificate makes of it, called without the log entries that
\* generate_certificate adds around them
BuildCertificate(op) ==
    /\ signer # ""
    /\ Len(builds) < MaxBuilds
    /\ \E ts \in Times :
        LET data == _prepare_certificate_data(op, log_chain, uuids + 1, ts, signer)
        IN  /\ ts >= now
            /\ now' = ts
            /\ builds' = Append(builds,
                  [op |-> op, log |-> log_chain,
                   canonical_json |-> Dumps(SignedFields(data))])
    /\ uuids' = uuids + 1
    /\ UNCHANGED <<log_chain, log_file, tampered, selVars, wipeVars, certVars,
                   adding, prior_log, key_files, signer_history, wipe_threads, signals>>

Verifiers == {"generator", "web", "cli"}

\* a verifier that has not run on the file as it is now
NoVerdict ==
    [by |-> "none", cert |-> 0, valid |-> FALSE, signature_valid |-> "absent",
     structure_valid |-> "absent", error |-> "", exit |-> None]

NoVerdicts == [by \in Verifiers |-> NoVerdict]

\* generate_certificate(wipe_operation) on the logger [chain, file] with n
\* uuids drawn so far: the JSON certificate is written before the PDF; if
\* the PDF cannot be made the call raises there
GenerateResult(logger, n, op, key, ts1, ts, ts2, ok1, ok2, pdf_ok) ==
    LET path == op.device_info.device_path
        logger1 == EntryAdded(logger, ts1, n + 1,
                      <<Chr("Starting certificate generation for "),
                        Chr(path)>>, INFO, ok1)
        id == n + 2
        data == _prepare_certificate_data(op, logger1.chain, id, ts, key)
        signed == SetItem(data, "signature",
                          PyStr(_sign_certificate(data, key)))
        logger2 == EntryAdded(logger1, ts2, n + 3,
                      <<Chr("Certificate generation completed: "),
                        Chr("veriwipe_certificate_"), Uuid4(id),
                        Chr(".json, "), Chr("veriwipe_certificate_"),
                        Uuid4(id), Chr(".pdf")>>, INFO, ok2)
    IN  [file |-> JsonDump(signed),
         certificate_id |-> Uuid4(id),
         raised |-> ~pdf_ok,
         logger |-> IF pdf_ok THEN logger2 ELSE logger1,
         uuids |-> IF pdf_ok THEN n + 3 ELSE n + 2,
         now |-> IF pdf_ok THEN ts2 ELSE ts]

\* the clock readings of one generate_certificate call, in order
GenerateTimes(from, ts1, ts, ts2, pdf_ok) ==
    /\ from <= ts1 /\ ts1 <= ts
    /\ IF pdf_ok THEN ts <= ts2 ELSE ts2 = ts

generate_certificate(op) ==
    /\ signer # ""
    /\ \E ts1 \in Times, ts \in Times, ts2 \in Times,
          ok1 \in BOOLEAN, ok2 \in BOOLEAN, pdf_ok \in BOOLEAN :
        /\ GenerateTimes(now, ts1, ts, ts2, pdf_ok)
        /\ ~pdf_ok => ~ok2
        /\ LET r == GenerateResult([chain |-> log_chain, file |-> log_file],
                                   uuids, op, signer, ts1, ts, ts2, ok1, ok2,
                                   pdf_ok)
           IN  /\ certs' = Append(certs, [file |-> r.file, changed |-> <<>>,
                                          accepted |-> FALSE])
               /\ now' = r.now
               /\ uuids' = r.uuids
               /\ log_chain' = r.logger.chain
               /\ log_file' = r.logger.file
    /\ verdict' = NoVerdicts
    /\ UNCHANGED <<tampered, signer, public_key, selVars, wipeVars, appVars>>

(***************************************************************************)
(* Verifiers                                                               *)
(***************************************************************************)
IsDigit(token) ==
    /\ "c" \in DOMAIN token
    /\ \E d \in DOMAIN DigitChar : DigitChar[d] = token.c

\* datetime.fromisoformat(text.replace('Z', '+00:00')) does not raise
FromIsoFormat(text) ==
    /\ Len(text) >= 3
    /\ text[1] = Chr("2025-09-01T00:00:")
    /\ text[Len(text)] \in {Chr("+00:00"), Chr("Z")}
    /\ \A i \in 2..(Len(text) - 1) : IsDigit(text[i])

\* a generator verifier that leaves blockchain_anchor in the canonical form
GeneratorVerifiedFieldsKeepAnchor(cert_data) == Pop(cert_data, "signature")

\* CertificateGenerator.verify_certificate: the fields popped before the
\* canonical form is made
GeneratorVerifiedFields(cert_data) ==
    Pop(Pop(cert_data, "signature"), "blockchain_anchor")

GeneratorVerify(file) ==
    LET cert_data == JsonLoad(file)
        signature == Get(cert_data, "signature", PyStr(<<>>))
        canonical_json == Dumps(GeneratorVerifiedFields(cert_data))
        ok == /\ signature.ty = "str"
              /\ verify_signature(signer, canonical_json, signature.val)
    IN  [NoVerdict EXCEPT !.by = "generator", !.valid = ok,
                          !.signature_valid = IF ok THEN "true" ELSE "false"]

\* a web verifier that leaves blockchain_anchor in the canonical form
WebVerifiedFieldsKeepAnchor(cert_copy) == Pop(cert_copy, "signature")

\* web CertificateVerifier.verify_certificate: cert_copy after the pops
WebVerifiedFields(cert_copy) ==
    Pop(Pop(cert_copy, "signature"), "blockchain_anchor")

RequiredFields ==
    {"certificate_id", "timestamp", "device_info", "wipe_operation",
     "tool_info", "compliance_info"}

EmptyDict == PyDict(<<>>)

\* bool(value) is False
Falsy(value) ==
    \/ value.ty = "NoneType"
    \/ value.ty = "bool" /\ ~value.val[1]
    \/ value.ty = "float" /\ value.val[1] = 0
    \/ value.ty \in {"str", "list", "dict"} /\ value.val = <<>>

\* _validate_certificate_structure: "raised" when a .replace or .get is
\* called on a value that has no such method, else whether errors is empty
_validate_certificate_structure(cert_data) ==
    LET timestamp == Get(cert_data, "timestamp", PyStr(<<>>))
        wipe_op == Get(cert_data, "wipe_operation", EmptyDict)
        device_info == Get(cert_data, "device_info", EmptyDict)
    IN  IF timestamp.ty # "str" \/ wipe_op.ty # "dict" \/ device_info.ty # "dict"
        THEN "raised"
        ELSE IF /\ \A field \in RequiredFields : Has(cert_data, field)
                /\ FromIsoFormat(timestamp.val)
                /\ Get(wipe_op, "status", PyNone) \in {Word("completed"), Word("failed")}
                /\ ~Falsy(Get(device_info, "device_type", PyNone))
        THEN "true" ELSE "false"

WebVerify(file) ==
    LET certificate_data == JsonLoad(file)
        signature == Get(certificate_data, "signature", PyStr(<<>>))
        canonical_json == Dumps(WebVerifiedFields(certificate_data))
        failed == [NoVerdict EXCEPT !.by = "web"]
    IN  IF Falsy(signature) THEN [failed EXCEPT !.error = "No signature found"]
        ELSE IF public_key = "" THEN
            [failed EXCEPT !.error = "Public key not available"]
        ELSE IF signature.ty # "str" THEN
            [failed EXCEPT !.error = "Signature verification error"]
        ELSE
        LET signature_valid ==
                EcdsaVerify(public_key, b64decode(signature.val), canonical_json)
            structure == _validate_certificate_structure(certificate_data)
        IN  IF structure = "raised" THEN
                [failed EXCEPT !.error = "Verification error"]
            ELSE [failed EXCEPT
                    !.valid = signature_valid /\ structure = "true",
                    !.signature_valid = IF signature_valid THEN "true" ELSE "false",
                    !.structure_valid = structure]

\* cli_verifier.verify_certificate_simple
verify_certificate_simple(file) ==
    LET cert_data == JsonLoad(file)
        timestamp == Get(cert_data, "timestamp", PyStr(<<>>))
        signature == Get(cert_data, "signature", PyStr(<<>>))
        failed == [NoVerdict EXCEPT !.by = "cli"]
    IN  IF \E field \in RequiredFields : ~Has(cert_data, field) THEN
            [failed EXCEPT !.error = "Missing required fields"]
        ELSE IF timestamp.ty # "str" THEN
            [failed EXCEPT !.error = "Verification error"]
        ELSE IF ~FromIsoFormat(timestamp.val) THEN
            [failed EXCEPT !.error = "Invalid timestamp format"]
        ELSE IF Falsy(signature) THEN
            [failed EXCEPT !.error = "No digital signature found"]
        ELSE [failed EXCEPT !.valid = TRUE]

\* veriwipe.py --verify <path>: the exit code of main
VerifyMode(file) ==
    LET result == verify_certificate_simple(file)
    IN  [result EXCEPT !.exit = Some(IF result.valid THEN 0 ELSE 1)]

\* someone runs one of the verifiers on the file of certificate i
Verify(i, by) ==
    /\ i \in DOMAIN certs
    /\ verdict[by].by = "none"
    /\ LET result == CASE by = "generator" -> GeneratorVerify(certs[i].file)
                        [] by = "web" -> WebVerify(certs[i].file)
                        [] by = "cli" -> VerifyMode(certs[i].file)
       IN  /\ verdict' = [verdict EXCEPT ![by] = [result EXCEPT !.cert = i]]
           /\ certs' = [certs EXCEPT ![i].accepted =
                            @ \/ (by = "web" /\ result.valid)]
    /\ UNCHANGED <<signer, public_key, logVars, selVars, wipeVars, appVars>>

(***************************************************************************)
(* An outside party edits one field of a certificate file.                 *)
(***************************************************************************)
\* the object with the value at path (one or two keys deep) replaced
SetPath(obj, path, value) ==
    IF Len(path) = 1 THEN SetItem(obj, path[1], value)
    ELSE SetItem(obj, path[1], SetItem(Item(obj, path[1]), path[2], value))

AtPath(obj, path) ==
    IF Len(path) = 1 THEN Item(obj, path[1])
    ELSE Item(Item(obj, path[1]), path[2])

\* fields the signature covers, and values of their type to put there
SignedEdits ==
    {<<<<"device_info", "model">>, Word("Samsung SSD 851")>>,
     <<<<"device_info", "size_gb">>, PyFloat(3)>>,
     <<<<"device_info", "device_type">>, Word("hdd")>>,
     <<<<"device_info", "device_type">>, PyStr(<<>>)>>,
     <<<<"wipe_operation", "status">>, Word("completed")>>,
     <<<<"wipe_operation", "status">>, Word("cancelled")>>,
     <<<<"timestamp">>, PyStr(IsoFormat(0))>>,
     <<<<"timestamp">>, Word("yesterday")>>,
     <<<<"certificate_id">>, PyStr(<<Uuid4(0)>>)>>}

\* the signature itself, replaced by other base64 text
SignatureEdits == {<<<<"signature">>, Word("AAAA")>>}

TamperCertificate(i, path, value) ==
    /\ i \in DOMAIN certs
    /\ certs[i].changed = <<>>
    /\ LET loaded == JsonLoad(certs[i].file) IN
        /\ AtPath(loaded, path).ty = value.ty
        /\ AtPath(loaded, path) # value
        /\ certs' = [certs EXCEPT ![i].file = JsonDump(SetPath(loaded, path, value)),
                                  ![i].changed = path]
    /\ verdict' = NoVerdicts
    /\ UNCHANGED <<signer, public_key, logVars, selVars, wipeVars, appVars>>

\* what an outside party writes as blockchain_anchor: a token, or null
AnchorValues == {PyNone, PyStr(<<Chr("tx-1")>>)}

\* the blockchain_anchor member of a certificate file is added or changed
SetAnchor(i, value) ==
    /\ i \in DOMAIN certs
    /\ certs[i].changed \in {<<>>, <<"blockchain_anchor">>}
    /\ LET loaded == JsonLoad(certs[i].file) IN
        /\ Has(loaded, "blockchain_anchor") =>
                Item(loaded, "blockchain_anchor") # value
        /\ certs' = [certs EXCEPT
              ![i].file = JsonDump(SetItem(loaded, "blockchain_anchor", value)),
              ![i].changed = <<"blockchain_anchor">>]
    /\ verdict' = NoVerdicts
    /\ UNCHANGED <<signer, public_key, logVars, selVars, wipeVars, appVars>>

\* the blockchain_anchor member of a certificate file is removed
RemoveAnchor(i) ==
    /\ i \in DOMAIN certs
    /\ certs[i].changed \in {<<>>, <<"blockchain_anchor">>}
    /\ LET loaded == JsonLoad(certs[i].file) IN
        /\ Has(loaded, "blockchain_anchor")
        /\ certs' = [certs EXCEPT
              ![i].file = JsonDump(Pop(loaded, "blockchain_anchor")),
              ![i].changed = <<"blockchain_anchor">>]
    /\ verdict' = NoVerdicts
    /\ UNCHANGED <<signer, public_key, logVars, selVars, wipeVars, appVars>>

CertInit ==
    /\ signer = ""
    /\ public_key \in Keys \cup {""}
    /\ certs = <<>>
    /\ verdict = NoVerdicts

\* nothing of the certificate engine is in use
NoCerts ==
    /\ CertInit
    /\ public_key = ""

(***************************************************************************)
(* VeriWipeMainWindow and WipeThread                                       *)
(***************************************************************************)
ERROR == <<Chr("ERROR")>>

\* the thread of the interpreter that runs WipeThread.run
Worker == "t1"

\* VeriWipeMainWindow(): the logger finds no log file, the generator logs
\* its first entry, start_device_detection logs the second, and the
\* detection thread has reported one device
WindowLog ==
    Appended(Appended(Appended(<<>>,
        1, 1, <<Chr("Certificate generator initialized")>>, INFO),
        1, 2, <<Chr("Device detection started")>>, INFO),
        1, 3, <<Chr("Detected "), Chr("1"), Chr(" storage devices")>>, INFO)

WindowInit ==
    /\ now = 1
    /\ uuids = Len(WindowLog)
    /\ log_chain = WindowLog
    /\ log_file = [exists |-> TRUE, entries |-> WindowLog]
    /\ tampered = Untouched
    /\ prior_log = [exists |-> FALSE, entries |-> <<>>]
    /\ signer = "k1"
    /\ public_key = "k1"
    /\ certs = <<>>
    /\ verdict = NoVerdicts
    /\ adding = [t \in Threads |-> IdleAdd]
    /\ builds = <<>>
    /\ wipe_threads = [d \in Devices |-> NoThread]
    /\ signals = <<>>
    /\ key_files = NoKeyFiles
    /\ signer_history = <<>>

\* start_wipe_operation(device_path) for the detected device `facts`
start_wipe_operation(facts) ==
    LET d == facts.device_path IN
    /\ wipe_threads[d].state = "none"
    /\ exec[Worker].pc = "idle"
    /\ \E ts \in Times, ok \in BOOLEAN :
        /\ ts >= now
        /\ now' = ts
        /\ uuids' = uuids + 1
        /\ log_chain' = Appended(log_chain, ts, uuids + 1,
              <<Chr("Starting wipe operation for "), Chr(d)>>, INFO)
        /\ log_file' = SaveLog(log_chain', ok)
    /\ Prepared("e1", facts)
    /\ wipe_threads' = [wipe_threads EXCEPT ![d] =
          [state |-> "started", is_cancelled |-> FALSE, cancelled_during |-> ""]]
    /\ exec' = [exec EXCEPT ![Worker] = IdleExec]
    /\ UNCHANGED <<runs, tampered, str_hash, has_selector, selected, certVars,
                   adding, prior_log, key_files, signer_history, builds, signals>>

\* WipeThread.run, line 52: the thread calls execute_wipe
ThreadRun(d) ==
    /\ wipe_threads[d].state = "started"
    /\ exec[Worker].ret = "none"
    /\ ExecuteStart(Worker, d)
    /\ UNCHANGED runs

\* WipeThread.cancel()
cancel(d) ==
    /\ wipe_threads[d].state = "started"
    /\ ~wipe_threads[d].is_cancelled
    /\ wipe_threads' = [wipe_threads EXCEPT
          ![d].is_cancelled = TRUE,
          ![d].cancelled_during =
              IF exec[Worker].pc # "idle" THEN exec[Worker].pc
              ELSE IF exec[Worker].ret = "none" THEN "before" ELSE "after"]
    /\ UNCHANGED <<logVars, selVars, wipeVars, certVars, adding, prior_log, key_files, signer_history,
                   builds, signals>>

\* WipeThread.run, lines 53-57: execute_wipe has returned or raised
ThreadEmit(d) ==
    /\ wipe_threads[d].state = "started"
    /\ exec[Worker].pc = "idle"
    /\ exec[Worker].ret # "none"
    /\ signals' =
          IF exec[Worker].ret = "raised" THEN
              Append(signals, [device_path |-> d, success |-> FALSE,
                               message |-> "str(e)"])
          ELSE IF ~wipe_threads[d].is_cancelled THEN
              Append(signals,
                  [device_path |-> d, success |-> exec[Worker].ret = "true",
                   message |-> IF exec[Worker].ret = "true"
                               THEN "Wipe completed successfully"
                               ELSE "Wipe failed"])
          ELSE signals
    /\ wipe_threads' = [wipe_threads EXCEPT ![d].state = "finished"]
    /\ UNCHANGED <<logVars, selVars, wipeVars, certVars, adding, prior_log, key_files, signer_history,
                   builds>>

\* on_wipe_completed(device_path, success, message), the slot of the
\* wipe_completed signal; `clock` are the five readings of the clock the
\* handler can make, `saved` whether each of its four log writes reaches
\* the disk, pdf_ok whether the PDF could be made
on_wipe_completed(clock, saved, pdf_ok) ==
    /\ signals # <<>>
    /\ LET d == Head(signals).device_path
           success == Head(signals).success
           o == current_operations[d]
           ts0 == clock[1]
           ts1 == clock[2]
           ts == clock[3]
           ts2 == clock[4]
           ts3 == clock[5]
           ok0 == saved[1]
           ok1 == saved[2]
           ok2 == saved[3]
           ok3 == saved[4]
       IN   LET logger0 == EntryAdded([chain |-> log_chain, file |-> log_file],
                              ts0, uuids + 1,
                              <<Chr("Wipe operation for "), Chr(d),
                                Chr(" completed: "),
                                Chr(IF success THEN "success" ELSE "failed")>>,
                              INFO, ok0)
            IN  /\ now <= ts0
                /\ IF success /\ o # 0 THEN
                        /\ GenerateTimes(ts0, ts1, ts, ts2, pdf_ok)
                        /\ ts3 >= (IF pdf_ok THEN ts2 ELSE ts)
                        /\ LET r == GenerateResult(logger0, uuids + 1, ops[o],
                                        signer, ts1, ts, ts2, ok1, ok2, pdf_ok)
                               logger3 ==
                                   IF r.raised THEN
                                       EntryAdded(r.logger, ts3, r.uuids + 1,
                                           <<Chr("Certificate generation failed for "),
                                             Chr(d), Chr(": "), Chr("str(e)")>>,
                                           ERROR, ok3)
                                   ELSE
                                       EntryAdded(r.logger, ts3, r.uuids + 1,
                                           <<Chr("Certificate generated for "),
                                             Chr(d), Chr(": "), r.certificate_id>>,
                                           INFO, ok3)
                           IN  /\ certs' = Append(certs,
                                     [file |-> r.file, changed |-> <<>>,
                                      accepted |-> FALSE])
                               /\ verdict' = NoVerdicts
                               /\ now' = ts3
                               /\ uuids' = r.uuids + 1
                               /\ log_chain' = logger3.chain
                               /\ log_file' = logger3.file
                   ELSE
                        /\ now' = ts0
                        /\ uuids' = uuids + 1
                        /\ log_chain' = logger0.chain
                        /\ log_file' = logger0.file
                        /\ UNCHANGED <<certs, verdict>>
    /\ wipe_threads' = [wipe_threads EXCEPT ![Head(signals).device_path] = NoThread]
    /\ signals' = Tail(signals)
    /\ UNCHANGED <<tampered, signer, public_key, selVars, wipeVars, adding,
                   prior_log, key_files, signer_history, builds>>

(***************************************************************************)
(* Specifications                                                          *)
(***************************************************************************)
\* the engines a specification does not exercise hold no selector
OneEngine ==
    /\ SelInit
    /\ has_selector["e2"] = "none"

\* the log alone: entries are appended and an outside party may rewrite one
LogAdd ==
    /\ Len(log_chain) < MaxLog
    /\ \E m \in Messages, l \in Levels : add_entry(m, l)
    /\ UNCHANGED certVars

LogNext == LogAdd \/ Tamper

\* nothing but the logger is in use
LogOnlyInit ==
    /\ LogInit /\ OneEngine /\ has_selector["e1"] = "none" /\ CoreInit
    /\ str_hash = DistinctHashes /\ NoCerts /\ AppInit

SpecLog == LogOnlyInit /\ [][LogNext]_vars

\* a logger is constructed over the log file of an earlier run and callers
\* append to it
ReloadInit ==
    /\ LoggerInit /\ OneEngine /\ has_selector["e1"] = "none" /\ CoreInit
    /\ str_hash = DistinctHashes /\ NoCerts
    /\ adding = [t \in Threads |-> IdleAdd]
    /\ builds = <<>>
    /\ wipe_threads = [d \in Devices |-> NoThread]
    /\ signals = <<>>
    /\ key_files = NoKeyFiles
    /\ signer_history = <<>>

SpecReload == ReloadInit /\ [][LogAdd]_vars

\* two threads share one logger and call add_entry at will
ThreadAdds ==
    /\ uuids < MaxLog
    /\ \E t \in Threads, m \in Messages, l \in Levels : AddRead(t, m, l)

ThreadAppends == \E t \in Threads : AddAppend(t)

ThreadSaves == \E t \in Threads : AddSave(t)

ThreadsNext == ThreadAdds \/ ThreadAppends \/ ThreadSaves

SpecThreads == LogOnlyInit /\ [][ThreadsNext]_vars

\* the selector alone: callers ask two engines
SelectAny == \E e \in Engines, facts \in SelFacts : Select(e, facts)

SelOnlyInit == LogInit /\ SelInit /\ CoreInit /\ NoCerts /\ AppInit

SpecSel == SelOnlyInit /\ [][SelectAny]_vars

\* one caller drives a WipeCore built on engine e1: it prepares the
\* operation of a device and executes it
Prepare ==
    /\ exec["t1"].pc = "idle"
    /\ ops = <<>>
    /\ \E facts \in WipeFacts : prepare_wipe_operation("e1", facts)

Execute ==
    /\ \E d \in Devices :
        /\ current_operations[d] # 0 =>
                ops[current_operations[d]].status = "not_started"
        /\ ExecuteStart("t1", d)
    /\ UNCHANGED runs

Raise == \E m \in ErrorMessages : ExceptClause("t1", m)

\* the steps of the execute_wipe call of thread t
WipeStep(t) ==
    \/ pre_wipe_checks(t)
    \/ execute_wipe_method(t)
    \/ Poll(t)
    \/ ChildExit(t)
    \/ MonitorDdProgress(t)
    \/ DdExit(t)
    \/ OverwritePass(t)
    \/ post_wipe_verification(t)

WipeNext ==
    \/ Prepare
    \/ Execute
    \/ WipeStep("t1")
    \/ Raise
    \/ RaisedInExceptClause("t1")

WipeInit ==
    /\ LogInit /\ OneEngine /\ CoreInit /\ str_hash = DistinctHashes
    /\ NoCerts /\ AppInit

SpecWipe == WipeInit /\ [][WipeNext]_vars

\* the same caller under a fair scheduler: the thread inside execute_wipe
\* keeps taking its own steps; when a child process exits is up to the child,
\* and a turn of a polling loop past MaxTicks leaves the state as it is
ExecutorStep(t) ==
    \/ pre_wipe_checks(t)
    \/ execute_wipe_method(t)
    \/ Poll(t)
    \/ MonitorDdProgress(t)
    \/ OverwritePass(t)
    \/ post_wipe_verification(t)

SpecWipeLive == WipeInit /\ [][WipeNext]_vars /\ WF_vars(ExecutorStep("t1"))

\* the same caller, who may also call execute_wipe again for a device whose
\* operation has been executed before; the engine selects by the rules
ExecuteAgain ==
    /\ runs < MaxRuns
    /\ runs' = runs + 1
    /\ ExecuteStart("t1", "/dev/sdb")

RewipeNext ==
    \/ Prepare
    \/ ExecuteAgain
    \/ WipeStep("t1")
    \/ Raise
    \/ RaisedInExceptClause("t1")

SpecRewipe == LogOnlyInit /\ [][RewipeNext]_vars

\* two callers share one WipeCore: either may prepare an operation for the
\* device or call execute_wipe for it, whatever the other is doing
SharedFacts == {DeviceInfo("/dev/sdb", "usb", "None", FALSE, FALSE, 1, "usb")}

PrepareShared ==
    /\ Len(ops) < MaxOps
    /\ \E facts \in SharedFacts : prepare_wipe_operation("e1", facts)

ExecuteShared ==
    /\ runs < MaxRuns
    /\ runs' = runs + 1
    /\ \E t \in Threads : ExecuteStart(t, "/dev/sdb")

\* the steps of execute_wipe that a device wiped by dd goes through
DdStep(t) ==
    \/ pre_wipe_checks(t)
    \/ execute_wipe_method(t)
    \/ MonitorDdProgress(t)
    \/ DdExit(t)
    \/ post_wipe_verification(t)

SharedStep == \E t \in Threads : DdStep(t)

SharedNext ==
    \/ PrepareShared
    \/ ExecuteShared
    \/ SharedStep

SpecShared == LogOnlyInit /\ [][SharedNext]_vars

\* the disk the log file is on takes every write
LogSaved == log_file' = [exists |-> TRUE, entries |-> log_chain']

\* the main window: the user starts the wipe of the detected device, the
\* worker thread executes it, cancel() may be called on the thread, and the
\* window handles the wipe_completed signal; the disk takes every write of
\* the log and a handler runs in less than a tick of the clock
WindowStart ==
    /\ ops = <<>>
    /\ \E facts \in WipeFacts : start_wipe_operation(facts)
    /\ LogSaved
    /\ now' = now

WindowRun == \E d \in Devices : ThreadRun(d)

WindowCancel == \E d \in Devices : cancel(d)

WindowEmit == \E d \in Devices : ThreadEmit(d)

WindowCompleted ==
    \E pdf_ok \in BOOLEAN :
        on_wipe_completed([i \in 1..5 |-> now], [i \in 1..4 |-> TRUE], pdf_ok)

WindowNext ==
    \/ WindowStart
    \/ WindowRun
    \/ WipeStep(Worker)
    \/ Raise
    \/ RaisedInExceptClause(Worker)
    \/ WindowCancel
    \/ WindowEmit
    \/ WindowCompleted

WindowOnlyInit ==
    /\ WindowInit /\ OneEngine /\ has_selector["e1"] = "none" /\ CoreInit
    /\ str_hash = DistinctHashes

SpecWindow == WindowOnlyInit /\ [][WindowNext]_vars

\* the certificate engine: a generator is built over an empty log, callers
\* log, a certificate is generated for a wipe operation, the file may be
\* edited, and the three verifiers are run on it
CertOperations ==
    LET facts == DeviceInfo("/dev/sdb", "ssd_sata", "None", TRUE, FALSE, 4, "sata")
        op == WipeOperation(facts, "ata_secure_erase")
    IN  {[op EXCEPT !.status = "completed", !.start_time = Some(1),
                    !.end_time = Some(2), !.progress = 100,
                    !.verification_hashes.pre_wipe_sample = Some(SampleHash)],
         [op EXCEPT !.status = "failed", !.start_time = Some(1),
                    !.method = "single_pass_random", !.progress = 2,
                    !.error_message = Some(<<Chr("Post-wipe verification failed")>>)],
         [op EXCEPT !.status = "in_progress", !.start_time = Some(1)]}

Construct == CertificateGenerator("k1") /\ LogSaved

CertLogAdd ==
    /\ signer # ""
    /\ certs = <<>>
    /\ Len(log_chain) < MaxLog - 1
    /\ \E m \in Messages : add_entry(m, INFO)
    /\ LogSaved
    /\ UNCHANGED certVars

\* one certificate is generated, in less than a tick of the clock
Generate ==
    /\ certs = <<>>
    /\ \E op \in CertOperations : generate_certificate(op)
    /\ LogSaved
    /\ now' = now

VerifyAny == \E i \in DOMAIN certs, by \in Verifiers : Verify(i, by)

TamperSigned ==
    \E i \in DOMAIN certs, e \in SignedEdits : TamperCertificate(i, e[1], e[2])

TamperSignature ==
    \E i \in DOMAIN certs, e \in SignatureEdits : TamperCertificate(i, e[1], e[2])

CertNext ==
    \/ Construct
    \/ CertLogAdd
    \/ Generate
    \/ VerifyAny
    \/ TamperSigned
    \/ TamperSignature

CertOnlyInit ==
    /\ LogInit /\ OneEngine /\ has_selector["e1"] = "none" /\ CoreInit
    /\ str_hash = DistinctHashes /\ CertInit /\ AppInit

SpecCert == CertOnlyInit /\ [][CertNext]_vars

\* a caller builds certificates from the wipe operations it holds
BuildAny == \E op \in CertOperations : BuildCertificate(op)

BuildNext ==
    \/ Construct
    \/ CertLogAdd
    \/ BuildAny

SpecBuild == CertOnlyInit /\ [][BuildNext]_vars

\* the anchor of a generated certificate is added, changed or removed, and
\* the verifiers are run on the file
AnchorSet ==
    \E i \in DOMAIN certs, value \in AnchorValues : SetAnchor(i, value)

AnchorRemove == \E i \in DOMAIN certs : RemoveAnchor(i)

AnchorNext ==
    \/ Construct
    \/ CertLogAdd
    \/ Generate
    \/ VerifyAny
    \/ AnchorSet
    \/ AnchorRemove

SpecAnchor == CertOnlyInit /\ [][AnchorNext]_vars

\* the window over an engine whose load_models fitted a forest: the method of
\* an unencrypted disk is whatever the forest predicts
ClassifyFacts == {DeviceInfo("/dev/sdb", "hdd", "None", FALSE, FALSE, 4, "sata")}

ClassifyStart ==
    /\ ops = <<>>
    /\ \E facts \in ClassifyFacts : start_wipe_operation(facts)
    /\ LogSaved
    /\ now' = now

ClassifyNext ==
    \/ ClassifyStart
    \/ WindowRun
    \/ WipeStep(Worker)
    \/ Raise
    \/ RaisedInExceptClause(Worker)
    \/ WindowEmit
    \/ WindowCompleted

ClassifyInit ==
    /\ WindowInit /\ OneEngine /\ has_selector["e1"] = "forest" /\ CoreInit
    /\ str_hash = DistinctHashes

SpecClassify == ClassifyInit /\ [][ClassifyNext]_vars

\* signers are constructed one after another over the same key paths, and
\* between two constructions the public key file may get lost
SignerNext ==
    \/ CryptographicSigner
    \/ \E content \in {"missing", Corrupt} : PublicKeyFileLost(content)

SpecSigner == CertOnlyInit /\ [][SignerNext]_vars

(***************************************************************************)
(* C1: starting from an empty logger, after any sequence of add_entry      *)
(* calls verify_chain_integrity() returns true: the first entry's          *)
(* previous_hash is the genesis hash, every later entry's previous_hash is *)
(* its predecessor's entry_hash, and every entry_hash is the hash          *)
(* recomputed from the entry's fields.                                     *)
(***************************************************************************)
C1_ChainIntegrity ==
    tampered = Untouched =>
        /\ verify_chain_integrity(log_chain)
        /\ \A i \in DOMAIN log_chain :
            /\ log_chain[i].previous_hash =
                   (IF i = 1 THEN genesis_hash ELSE log_chain[i - 1].entry_hash)
            /\ log_chain[i].entry_hash = calculate_hash(log_chain[i])

C1_Witness ==
    /\ tampered = Untouched
    /\ Len(log_chain) >= 3
    /\ log_chain[2].message # log_chain[3].message
    /\ log_chain[1].level # log_chain[2].level

(***************************************************************************)
(* C2: for any chain built by add_entry, changing one entry's message,     *)
(* timestamp, level or previous_hash to a different value while its stored *)
(* entry_hash stays as it was makes verify_chain_integrity() return false. *)
(***************************************************************************)
C2_TamperDetected ==
    tampered # Untouched => ~verify_chain_integrity(log_chain)

C2_Witness ==
    /\ tampered = <<2, "level">>
    /\ Len(log_chain) = 3
    /\ ~verify_chain_integrity(log_chain)

(***************************************************************************)
(* C3: the JSON certificate generate_certificate writes, read back and     *)
(* verified with the signer's public key, is reported signature-valid by   *)
(* CertificateGenerator.verify_certificate and by the web                  *)
(* CertificateVerifier.verify_certificate alike, for any wipe operation    *)
(* and any log contents.                                                   *)
(***************************************************************************)
C3_SignatureRoundTrip ==
    \A i \in DOMAIN certs :
        certs[i].changed = <<>> =>
            /\ verdict["generator"].cert = i =>
                   /\ verdict["generator"].valid
                   /\ verdict["generator"].signature_valid = "true"
            /\ (verdict["web"].cert = i /\ public_key = signer) =>
                   verdict["web"].signature_valid = "true"

\* both verifiers have run on an unedited certificate that carries three
\* log entries, for an operation that failed
C3_Witness ==
    /\ Len(certs) = 1
    /\ certs[1].changed = <<>>
    /\ public_key = signer
    /\ verdict["generator"].signature_valid = "true"
    /\ verdict["web"].signature_valid = "true"
    /\ verdict["web"].structure_valid = "true"
    /\ Len(Item(JsonLoad(certs[1].file), "operation_log").val) = 3
    /\ AtPath(JsonLoad(certs[1].file), <<"wipe_operation", "status">>)
           = Word("failed")

(***************************************************************************)
(* C4 as stated: for a valid certificate, changing the value of any signed *)
(* field to a different value of the same type makes the web verifier      *)
(* return signature_valid = false while structure_valid stays true, so     *)
(* the overall result is invalid.                                          *)
(***************************************************************************)
SignedPaths == {e[1] : e \in SignedEdits}

\* the web verifier has run on certificate i, which it had accepted before
\* one of its signed fields was edited
EditedAfterAccepted(i) ==
    /\ certs[i].accepted
    /\ certs[i].changed \in SignedPaths
    /\ verdict["web"].cert = i

C4_StructureStaysValid ==
    \A i \in DOMAIN certs :
        EditedAfterAccepted(i) =>
            /\ verdict["web"].signature_valid = "false"
            /\ verdict["web"].structure_valid = "true"
            /\ ~verdict["web"].valid

(***************************************************************************)
(* C4 amended: for a valid certificate, changing the value of any signed   *)
(* field to a different value of the same type makes the web verifier      *)
(* return signature_valid = false and an invalid overall result;           *)
(* structure_valid stays true unless the new value is one the structural   *)
(* validation rejects: a timestamp that is no ISO date, a                  *)
(* wipe_operation.status other than completed or failed, or an empty       *)
(* device_info.device_type.                                                *)
(***************************************************************************)
EditRejected(i) ==
    LET path == certs[i].changed
        value == AtPath(JsonLoad(certs[i].file), path)
    IN  \/ path = <<"timestamp">> /\ ~FromIsoFormat(value.val)
        \/ /\ path = <<"wipe_operation", "status">>
           /\ value \notin {Word("completed"), Word("failed")}
        \/ path = <<"device_info", "device_type">> /\ value.val = <<>>

C4_SignedEditDetected ==
    \A i \in DOMAIN certs :
        EditedAfterAccepted(i) =>
            /\ verdict["web"].signature_valid = "false"
            /\ ~verdict["web"].valid
            /\ verdict["web"].structure_valid = "true" <=> ~EditRejected(i)

\* the model name of an accepted certificate was edited
C4_Witness ==
    /\ Len(certs) = 1
    /\ EditedAfterAccepted(1)
    /\ certs[1].changed = <<"device_info", "model">>
    /\ verdict["web"].signature_valid = "false"
    /\ verdict["web"].structure_valid = "true"

(***************************************************************************)
(* C5: the --verify mode exits 1 on a certificate whose signed fields were *)
(* altered after signing or whose signature does not verify (it exits 0    *)
(* exactly when the certificate is valid).                                 *)
(***************************************************************************)
\* the signature in the file is the signer's, over the file's signed fields
SignatureVerifies(file) ==
    LET cert_data == JsonLoad(file)
        signature == Get(cert_data, "signature", PyStr(<<>>))
    IN  /\ signature.ty = "str"
        /\ verify_signature(signer, Dumps(SignedFields(cert_data)), signature.val)

C5_VerifyModeExitCode ==
    \A i \in DOMAIN certs :
        (verdict["cli"].cert = i /\ ~SignatureVerifies(certs[i].file))
            => verdict["cli"].exit = Some(1)

(***************************************************************************)
(* C6: in every trace of prepare_wipe_operation and execute_wipe calls an  *)
(* operation's status moves only forward (not_started to in_progress to    *)
(* completed, or from a non-terminal status to failed or cancelled), and   *)
(* an operation that is completed, failed or cancelled never changes       *)
(* status again.                                                           *)
(***************************************************************************)
Forward(before, after) ==
    \/ after = before
    \/ before = "not_started" /\ after = "in_progress"
    \/ before = "in_progress" /\ after = "completed"
    \/ before \notin Terminal /\ after \in {"failed", "cancelled"}

C6_StatusForwardOnly ==
    [][\A o \in DOMAIN ops : Forward(ops[o].status, ops'[o].status)]_vars

(***************************************************************************)
(* C7: the progress values delivered to the progress callbacks from the    *)
(* start of one execute_wipe call to its return are non-decreasing.        *)
(***************************************************************************)
NonDecreasing(seq) ==
    \A i \in 1..(Len(seq) - 1) : seq[i] <= seq[i + 1]

C7_ProgressMonotonic ==
    \A t \in Threads : NonDecreasing(exec[t].notified)

(***************************************************************************)
(* C8: when the sanitize command of ATA or NVMe secure erase fails because *)
(* the device does not support it, execute_wipe substitutes                *)
(* single_pass_random, records the substitution in the operation log, and  *)
(* runs the sanitize phase again with it: by the time the call returns the *)
(* operation's method is single_pass_random and the log names the          *)
(* substitution.                                                           *)
(***************************************************************************)
Returned(t) ==
    /\ exec[t].pc = "idle"
    /\ exec[t].ret # "none"
    /\ exec[t].op # 0

SubstitutionLogged(op) ==
    \E i \in DOMAIN op.operation_log :
        op.operation_log[i] = <<"Trying alternative method:", "single_pass_random">>

C8_UnsupportedFallsBack ==
    \A t \in Threads :
        (/\ Returned(t)
         /\ exec[t].reported = "not supported"
         /\ exec[t].method_trace[1] \in {"ata_secure_erase", "nvme_secure_erase"})
        => /\ ops[exec[t].op].method = "single_pass_random"
           /\ SubstitutionLogged(ops[exec[t].op])

(***************************************************************************)
(* C9: during one execute_wipe call operation.method changes at most once, *)
(* whatever errors the sanitize step and the fallback step produce.        *)
(***************************************************************************)
MethodChanges(trace) ==
    Cardinality({i \in 1..(Len(trace) - 1) : trace[i] # trace[i + 1]})

C9_AtMostOneMethodChange ==
    \A t \in Threads :
        /\ MethodChanges(exec[t].method_trace) <= 1
        /\ exec[t].op # 0 =>
              ops[exec[t].op].method =
                  exec[t].method_trace[Len(exec[t].method_trace)]

\* a call whose first method raised "Not Supported", whose substituted
\* single_pass_random failed as well, and which has returned
C9_Witness ==
    /\ Returned("t1")
    /\ exec["t1"].fallback
    /\ exec["t1"].ret = "false"
    /\ exec["t1"].method_trace = <<"ata_secure_erase", "single_pass_random">>
    /\ MethodChanges(exec["t1"].method_trace) = 1

(***************************************************************************)
(* C10: the method select_optimal_wipe_method returns is the one the rule  *)
(* ladder gives for the device facts, and two calls with equal facts, on   *)
(* the same or on different engine instances, return the same method.      *)
(***************************************************************************)
C10_PureRuleLadder ==
    /\ \A s \in selected : s.method = rule_based_method_selection(s.facts)
    /\ \A s1, s2 \in selected : s1.facts = s2.facts => s1.method = s2.method

(***************************************************************************)
(* C17: in every reachable state of a WipeOperation, end_time is set if    *)
(* and only if the status is terminal (completed, failed or cancelled).    *)
(* execute_wipe assigns end_time on line 97 only, next to COMPLETED: an    *)
(* operation that ends in failed keeps end_time None.                      *)
(***************************************************************************)
C17_EndTimeIffTerminal ==
    \A o \in DOMAIN ops :
        (ops[o].end_time # None) <=> (ops[o].status \in Terminal)

(***************************************************************************)
(* C18: in every reachable state of a WipeOperation, error_message is set  *)
(* if and only if the status is failed.  A sanitize method that returns    *)
(* False only appends to operation_log, and execute_wipe then sets FAILED  *)
(* on line 105 without an error_message.                                   *)
(***************************************************************************)
C18_ErrorIffFailed ==
    \A o \in DOMAIN ops :
        (ops[o].error_message # None) <=> (ops[o].status = "failed")

(***************************************************************************)
(* C12: no field of an emitted certificate, the messages of its log        *)
(* projection included, contains the device path in plaintext.             *)
(* generate_certificate logs "Starting certificate generation for <path>"  *)
(* before it builds the certificate, and operation_log copies the message  *)
(* of every log entry.                                                     *)
(***************************************************************************)
\* the text `word` occurs in a str somewhere inside the value
RECURSIVE MentionsText(_, _)
MentionsText(value, word) ==
    CASE value.ty = "str" ->
            \E i \in DOMAIN value.val : value.val[i] = Chr(word)
      [] value.ty = "list" ->
            \E i \in DOMAIN value.val : MentionsText(value.val[i], word)
      [] value.ty = "dict" ->
            \E i \in DOMAIN value.val : MentionsText(value.val[i].v, word)
      [] OTHER -> FALSE

C12_NoPlaintextPath ==
    \A i \in DOMAIN certs, d \in Devices :
        ~MentionsText(JsonLoad(certs[i].file), d)

(***************************************************************************)
(* C20: the signature covers every certificate field except signature and  *)
(* blockchain_anchor: after the anchor of a valid certificate was added,   *)
(* changed or removed, the generator's verifier still reports the          *)
(* signature valid, and so does the web verifier that holds the signer's   *)
(* public key.                                                             *)
(***************************************************************************)
C20_AnchorNotSigned ==
    \A i \in DOMAIN certs :
        certs[i].changed = <<"blockchain_anchor">> =>
            /\ verdict["generator"].cert = i =>
                   /\ verdict["generator"].valid
                   /\ verdict["generator"].signature_valid = "true"
            /\ (verdict["web"].cert = i /\ public_key = signer) =>
                   verdict["web"].signature_valid = "true"

\* an anchor token was written into the certificate and both verifiers ran
C20_Witness ==
    /\ Len(certs) = 1
    /\ certs[1].changed = <<"blockchain_anchor">>
    /\ Get(JsonLoad(certs[1].file), "blockchain_anchor", PyNone)
           = PyStr(<<Chr("tx-1")>>)
    /\ verdict["generator"].cert = 1 /\ verdict["generator"].valid
    /\ verdict["web"].cert = 1 /\ verdict["web"].signature_valid = "true"

(***************************************************************************)
(* C19: two builds of a certificate from the same wipe operation and the   *)
(* same log contents produce byte-identical canonical (signable) forms.    *)
(* _prepare_certificate_data draws a fresh uuid4 for certificate_id and    *)
(* reads the clock for timestamp, and both are part of the signed form.    *)
(***************************************************************************)
C19_CanonicalFormDeterministic ==
    \A i, j \in DOMAIN builds :
        (builds[i].op = builds[j].op /\ builds[i].log = builds[j].log)
            => builds[i].canonical_json = builds[j].canonical_json

(***************************************************************************)
(* C16: a log file that exists when a TamperProofLogger is constructed is  *)
(* never erased: after any later add_entry the persisted file still holds  *)
(* every prior entry followed by the new ones, also when the prior file    *)
(* fails to load or to verify, and the failure is reported by              *)
(* verify_chain_integrity().  A load that stops at an unloadable entry     *)
(* leaves only the entries before it in log_chain, and the next add_entry  *)
(* rewrites the whole file from log_chain.                                 *)
(***************************************************************************)
IsPrefix(prefix, seq) ==
    /\ Len(prefix) <= Len(seq)
    /\ \A i \in DOMAIN prefix : prefix[i] = seq[i]

\* every entry of the prior file loads and the chain they form verifies
PriorFileSound ==
    /\ \A i \in DOMAIN prior_log.entries :
            DOMAIN prior_log.entries[i] = LogEntryFields
    /\ verify_chain_integrity(prior_log.entries)

C16_PriorLogKept ==
    (prior_log.exists /\ uuids > Len(PriorChain)) =>
        /\ IsPrefix(prior_log.entries, log_file.entries)
        /\ ~PriorFileSound => ~verify_chain_integrity(log_chain)

(***************************************************************************)
(* C15: when two threads call add_entry on the same logger concurrently,   *)
(* the appends take effect one after the other: once the calls have        *)
(* returned no two entries carry the same previous_hash, no entry is lost  *)
(* and the chain passes verify_chain_integrity().  add_entry reads         *)
(* log_chain[-1].entry_hash and appends in separate statements without a   *)
(* lock, so two callers can both read the same last hash.                  *)
(***************************************************************************)
AllAddsReturned == \A t \in Threads : adding[t].pc = "idle"

C15_AppendsSerialized ==
    AllAddsReturned =>
        /\ \A i, j \in DOMAIN log_chain :
                i # j => log_chain[i].previous_hash # log_chain[j].previous_hash
        /\ Len(log_chain) = uuids
        /\ verify_chain_integrity(log_chain)

(***************************************************************************)
(* C13: while an operation on a device is in progress, a second operation  *)
(* on the same device path is refused: prepare_wipe_operation does not     *)
(* replace the running operation and execute_wipe does not restart it, so  *)
(* at no time do two executions act on the same device.                    *)
(* prepare_wipe_operation assigns current_operations[device_path]          *)
(* unconditionally, and execute_wipe only tests that the path is a key.    *)
(***************************************************************************)
Executing(t) == exec[t].pc # "idle"

NoSharedDevice ==
    \A t, u \in Threads :
        (t # u /\ Executing(t) /\ Executing(u)) => exec[t].dev # exec[u].dev

RunningKept ==
    \A d \in Devices :
        (current_operations[d] # 0
         /\ ops[current_operations[d]].status = "in_progress")
            => /\ current_operations'[d] = current_operations[d]
               /\ ops'[current_operations[d]].start_time
                      = ops[current_operations[d]].start_time

C13_ExclusiveDevice == []NoSharedDevice /\ [][RunningKept]_vars

(***************************************************************************)
(* C11: every operation that ends in failed still gets a signed            *)
(* certificate that records the failed status and verifies; a failed run   *)
(* never ends without a certificate.  on_wipe_completed calls              *)
(* generate_certificate only under `if success:`; for a failed wipe it     *)
(* shows a message box and returns.                                        *)
(***************************************************************************)
\* the worker thread of the device is done and its signal, if it emitted
\* one, has been handled
RunEnded(d) ==
    /\ current_operations[d] # 0
    /\ signals = <<>>
    /\ \/ wipe_threads[d].state = "none"
       \/ wipe_threads[d].state = "finished"

C11_FailedRunCertified ==
    \A d \in Devices :
        (RunEnded(d) /\ ops[current_operations[d]].status = "failed") =>
            \E i \in DOMAIN certs :
                /\ AtPath(JsonLoad(certs[i].file), <<"wipe_operation", "status">>)
                       = Word("failed")
                /\ GeneratorVerify(certs[i].file).valid

(***************************************************************************)
(* C14: when cancel is requested for a running operation, the executor     *)
(* observes it at the next sub-step boundary and the operation ends in     *)
(* status cancelled.  WipeThread.cancel() only sets is_cancelled, which    *)
(* execute_wipe never reads; WipeStatus.CANCELLED is assigned nowhere.     *)
(***************************************************************************)
CancelledWhileRunning(d) ==
    /\ wipe_threads[d].is_cancelled
    /\ wipe_threads[d].cancelled_during \in {"pre", "wipe", "run", "verify"}

C14_CancelObserved ==
    \A d \in Devices :
        (CancelledWhileRunning(d) /\ exec[Worker].pc = "idle") =>
            ops[current_operations[d]].status = "cancelled"


(***************************************************************************)
(* C21: when the sanitize phase succeeded and a sampled sector is rejected *)
(* by the post-wipe check, the operation ends in failed with the           *)
(* verification-failed error, the rejected sector is the last one sampled, *)
(* no post-wipe sample hash is recorded and the sanitize phase is not run  *)
(* again (execute_wipe returns False with the method as it was).           *)
(***************************************************************************)
RejectedAt(t) ==
    {i \in DOMAIN exec[t].reads : ~_verify_sector_wiped(exec[t].reads[i])}

SectorRejected(t) ==
    (exec[t].pc = "verify" /\ RejectedAt(t)' # {}) =>
        LET o == exec[t].op IN
        /\ exec'[t].pc = "idle"
        /\ exec'[t].ret = "false"
        /\ ops'[o].status = "failed"
        /\ ops'[o].error_message = Some(<<Chr("Post-wipe verification failed")>>)
        /\ RejectedAt(t)' = {Len(exec'[t].reads)}
        /\ ops'[o].verification_hashes = ops[o].verification_hashes
        /\ exec'[t].method_trace = exec[t].method_trace

C21_VerificationFailureFatal ==
    /\ [](\A t \in Threads : RejectedAt(t) # {} => exec[t].pc = "idle")
    /\ [][\A t \in Threads : SectorRejected(t)]_vars

C21_Witness ==
    \E t \in Threads :
        /\ Len(exec[t].reads) = 2
        /\ RejectedAt(t) = {2}
        /\ exec[t].reported = "ok"
        /\ ops[exec[t].op].status = "failed"


(***************************************************************************)
(* C22: the compliance classification written into a certificate is Clear  *)
(* or Purge and is the table entry of the strategy that sanitized the      *)
(* device: Clear whenever the data was removed by single_pass_random (the  *)
(* dd child), also when it was reached by a fallback, Purge otherwise.     *)
(***************************************************************************)
Classification(i) ==
    AtPath(JsonLoad(certs[i].file), <<"compliance_info", "method_classification">>)

C22_ClassificationOfStrategy ==
    \A i \in DOMAIN certs :
        /\ Classification(i) \in {Word("Clear"), Word("Purge")}
        /\ Classification(i) = Word("Clear") <=> exec[Worker].tool = "dd"


(***************************************************************************)
(* C23: when pre-flight finds the device mounted and umount reports an     *)
(* error for one of its partitions, execute_wipe returns before the        *)
(* sanitize phase with the operation failed and the unmount error set.     *)
(***************************************************************************)
C23_UnmountFailureAborts ==
    \A t \in Threads :
        exec[t].mount = "umount error" =>
            LET op == ops[exec[t].op] IN
            /\ exec[t].pc = "idle"
            /\ exec[t].ret = "false"
            /\ exec[t].notified = <<>>
            /\ op.status = "failed"
            /\ op.error_message =
                   Some(<<Chr("Failed to unmount "), Chr(op.device_info.device_path)>>)


(***************************************************************************)
(* C24: every execute_wipe call eventually returns with the operation in a *)
(* terminal status, for every strategy, also when the vendor sanitize      *)
(* command or the overwrite child never exits.                             *)
(***************************************************************************)
C24_ExecuteWipeReturns ==
    \A t \in Threads :
        (exec[t].pc # "idle") ~>
            (exec[t].pc = "idle" /\ exec[t].op # 0
                /\ ops[exec[t].op].status \in Terminal)


(***************************************************************************)
(* C25: within one execute_wipe run the phases happen in order: a sanitize *)
(* method is invoked only when pre-flight returned success, post-wipe      *)
(* verification only after a sanitize method returned success, and the     *)
(* status becomes completed only after verification passed.                *)
(***************************************************************************)
LogHas(op, text) ==
    \E i \in DOMAIN op.operation_log : op.operation_log[i][1] = text

VerifiedAfterSanitize(op) ==
    \E i \in DOMAIN op.operation_log :
        /\ op.operation_log[i][1] = "Post-wipe verification passed"
        /\ \A j \in DOMAIN op.operation_log :
               op.operation_log[j][1] = "Executing wipe method:" => j < i

OverwriteSucceeded(t) ==
    /\ Returned(t)
    /\ ~exec[t].fallback
    /\ exec[t].reported = "ok"
    /\ exec[t].tool \in {"dd", "overwrite"}
    /\ ops[exec[t].op].method \in {"single_pass_random", "multipass_overwrite"}

VerificationDecided(op) ==
    \/ LogHas(op, "Post-wipe verification passed")
    \/ LogHas(op, "Post-wipe verification failed - data remnants detected")

ReadsAsWritten(t) ==
    \A i \in DOMAIN exec[t].reads : {exec[t].reads[i]} = Written(exec[t].tool)

C27_FaithfulOverwritePasses ==
    \A t \in Threads :
        (OverwriteSucceeded(t) /\ VerificationDecided(ops[exec[t].op])
            /\ ReadsAsWritten(t)) =>
                ops[exec[t].op].status = "completed"

(***************************************************************************)
(* C28: every operation that reaches completed has had at least one sector *)
(* read and checked by post-wipe verification, whatever the capacity of    *)
(* the device above zero (devices smaller than 1 GB included).             *)
(***************************************************************************)
C28_CompletedWasSampled ==
    \A t \in Threads :
        (Returned(t) /\ ops[exec[t].op].status = "completed"
            /\ ops[exec[t].op].device_info.size_gb > 0) =>
            /\ exec[t].sampled >= 1
            /\ Len(exec[t].reads) >= 1


(***************************************************************************)
(* C29: every certificate emitted by generate_certificate records an       *)
(* operation in a terminal status that the verifier's structural           *)
(* validation accepts (completed or failed); none is emitted for an        *)
(* operation that is not started, in progress or cancelled.                *)
(***************************************************************************)
C29_CertifiedStatusTerminal ==
    \A i \in DOMAIN certs :
        certs[i].changed = <<>> =>
            AtPath(JsonLoad(certs[i].file), <<"wipe_operation", "status">>)
                \in {Word("completed"), Word("failed")}


(***************************************************************************)
(* C30: a key pair is generated only on first use. Once a private key has  *)
(* been persisted, constructing a CryptographicSigner again does not       *)
(* replace it: every signer holds the first key, the private key file      *)
(* keeps it, the fingerprint stays the same and what earlier signers       *)
(* signed verifies with the latest signer's key, also when the public key  *)
(* file is missing or does not load.                                       *)
(***************************************************************************)
SignedData == <<Chr("canonical form")>>

C30_KeypairGeneratedOnce ==
    \A i \in DOMAIN signer_history :
        /\ signer_history[i] = signer_history[1]
        /\ key_files.private = signer_history[1]
        /\ get_public_key_fingerprint(signer) =
               get_public_key_fingerprint(signer_history[i])
        /\ verify_signature(signer, SignedData,
                            sign_data(signer_history[i], SignedData))

====
